---- MODULE Spec2Model ----
(***************************************************************************)
(* State-machine model of the LabNation SmartScope driver script           *)
(* src/hardware/labnation-smartscope/lnss.hack.py: the command codec, the  *)
(* register/strobe/SPI tunnel, the firmware loader, the bring-up script    *)
(* and the acquisition reader, over a USB device with three bulk           *)
(* endpoints.  Every driver function is an operator that yields the        *)
(* sequence of USB transfers its code issues; the transfers are then       *)
(* executed one at a time against a nondeterministic device.               *)
(***************************************************************************)
EXTENDS Integers, Sequences, FiniteSets, TLC

VARIABLES
    pc,      \* "idle", "running", "seeking", "returned" or "raised"
    op,      \* name of the driver function being executed
    args,    \* its integer arguments
    todo,    \* transfers the function still has to issue
    xfers,   \* transfers issued to the device by the current call, in order
    ret,     \* what the last transfer returned: <<count>> or the bytes read
    result,  \* outcome of the call: [kind, exc, val]
    tries,   \* get_acquisition: local counter of non-matching header reads
    rx,      \* per data-endpoint header read: did it start with "LN"
    hdr,     \* get_acquisition / tryread: last header read
    out,     \* what tryread decoded from the header and the payload
    run,     \* module script: the calls it has finished so far, [f, st] each
    py       \* bindings (classes.py): locals of the running function

vars == <<pc, op, args, todo, xfers, ret, result, tries, rx, hdr, out, run, py>>

(***************************************************************************)
(* Bounds of the model                                                     *)
(***************************************************************************)
\* largest number of whole 2048-byte chunks in the firmware blobs tried
MaxChunks == 2
\* number of distinct byte patterns the device answers with
MaxSeed == 1
\* largest mask handed to QuantityFlag.set_from_mask
MaxMask == 63

(***************************************************************************)
(* Program constants                                                       *)
(***************************************************************************)
HEADER_CMD_BYTE == 192
FLASH_USER_ADDRESS_MASK == 4095
EP_CMD_IN == 131
EP_CMD_OUT == 2
EP_DATA == 129
FPGA_I2C_ADDRESS_SETTINGS == 12
FPGA_I2C_ADDRESS_ROM == 13
FETCH_SIZE_MAX == 2048 * 2
SZ_HDR == 64
PACKAGE_MAX == 64
\* dump_calibration_raw
OFF_PLUGCNT == 0
OFF_GAINCAL == 4
OFF_MAG == 220
OFF_ADCTV == 1156
\* the 16-byte size every command response is read with
SZ_RESPONSE == 16
\* the 1000 ms timeout lnss.hack.py passes to the data endpoint reads
DATA_TIMEOUT == 1000
\* load_blob
PACKSIZE == 32
PADDING == 2048 \div 8
CHUNK == 2048
PAD_BYTE == 255

validDividers == <<1, 6, 36>>
\* the multipliers 1.1, 2, 3 in tenths
validMultipliers == <<11, 20, 30>>

PIC_CMDS ==
    [ PIC_VERSION |-> 1, PIC_WRITE |-> 2, PIC_READ |-> 3, PIC_RESET |-> 4,
      PIC_BOOTLOADER |-> 5, EEPROM_READ |-> 6, EEPROM_WRITE |-> 7,
      FLASH_ROM_READ |-> 8, FLASH_ROM_WRITE |-> 9, I2C_WRITE |-> 10,
      I2C_READ |-> 11, PROGRAM_FPGA_START |-> 12, PROGRAM_FPGA_END |-> 13,
      I2C_WRITE_START |-> 14, I2C_WRITE_BULK |-> 15, I2C_WRITE_STOP |-> 16 ]

REG ==
    [ STROBE_UPDATE |-> 0, SPI_ADDRESS |-> 1, SPI_WRITE_VALUE |-> 2,
      DIVIDER_MULTIPLIER |-> 3, CHA_YOFFSET_VOLTAGE |-> 4,
      CHB_YOFFSET_VOLTAGE |-> 5, TRIGGER_PWM |-> 6, TRIGGER_LEVEL |-> 7,
      TRIGGER_MODE |-> 8, TRIGGER_PW_MIN_B0 |-> 9, TRIGGER_PW_MIN_B1 |-> 10,
      TRIGGER_PW_MIN_B2 |-> 11, TRIGGER_PW_MAX_B0 |-> 12,
      TRIGGER_PW_MAX_B1 |-> 13, TRIGGER_PW_MAX_B2 |-> 14,
      INPUT_DECIMATION |-> 15, ACQUISITION_DEPTH |-> 16,
      TRIGGERHOLDOFF_B0 |-> 17, TRIGGERHOLDOFF_B1 |-> 18,
      TRIGGERHOLDOFF_B2 |-> 19, TRIGGERHOLDOFF_B3 |-> 20,
      VIEW_DECIMATION |-> 21, VIEW_OFFSET_B0 |-> 22, VIEW_OFFSET_B1 |-> 23,
      VIEW_OFFSET_B2 |-> 24, VIEW_ACQUISITIONS |-> 25, VIEW_BURSTS |-> 26,
      VIEW_EXCESS_B0 |-> 27, VIEW_EXCESS_B1 |-> 28,
      DIGITAL_TRIGGER_RISING |-> 29, DIGITAL_TRIGGER_FALLING |-> 30,
      DIGITAL_TRIGGER_HIGH |-> 31, DIGITAL_TRIGGER_LOW |-> 32,
      DIGITAL_OUT |-> 33, GENERATOR_DECIMATION_B0 |-> 34,
      GENERATOR_DECIMATION_B1 |-> 35, GENERATOR_DECIMATION_B2 |-> 36,
      GENERATOR_SAMPLES_B0 |-> 37, GENERATOR_SAMPLES_B1 |-> 38 ]

\* the register identifiers, as the integers the IntEnum members compare by
RegIds == { REG[n] : n \in DOMAIN REG }

STR ==
    [ GLOBAL_RESET |-> 0, INIT_SPI_TRANSFER |-> 1, GENERATOR_TO_AWG |-> 2,
      LA_ENABLE |-> 3, SCOPE_ENABLE |-> 4, SCOPE_UPDATE |-> 5,
      FORCE_TRIGGER |-> 6, VIEW_UPDATE |-> 7, VIEW_SEND_OVERVIEW |-> 8,
      VIEW_SEND_PARTIAL |-> 9, ACQ_START |-> 10, ACQ_STOP |-> 11,
      CHA_DCCOUPLING |-> 12, CHB_DCCOUPLING |-> 13, ENABLE_ADC |-> 14,
      ENABLE_NEG |-> 15, ENABLE_RAM |-> 16, DOUT_3V_5V |-> 17,
      EN_OPAMP_B |-> 18, GENERATOR_TO_DIGITAL |-> 19, ROLL |-> 20,
      LA_CHANNEL |-> 21 ]

StrIds == { STR[n] : n \in DOMAIN STR }

\* HeaderFlags
HDRF ==
    [ Acquiring |-> 1, IsOverview |-> 2, IsLastAcquisition |-> 4,
      Rolling |-> 8, TimedOut |-> 16, AwaitingTrigger |-> 32, Armded |-> 64,
      IsFullAcqusition |-> 128 ]

(***************************************************************************)
(* Python integer operators on non-negative integers                       *)
(***************************************************************************)
Shl(x, n) == x * (2 ^ n)
Shr(x, n) == x \div (2 ^ n)

RECURSIVE BitAnd(_, _)
BitAnd(a, b) ==
    IF a = 0 \/ b = 0 THEN 0
    ELSE (IF a % 2 = 1 /\ b % 2 = 1 THEN 1 ELSE 0) + 2 * BitAnd(a \div 2, b \div 2)

RECURSIVE BitOr(_, _)
BitOr(a, b) ==
    IF a = 0 THEN b
    ELSE IF b = 0 THEN a
    ELSE (IF a % 2 = 1 \/ b % 2 = 1 THEN 1 ELSE 0) + 2 * BitOr(a \div 2, b \div 2)

RECURSIVE BitXor(_, _)
BitXor(a, b) ==
    IF a = 0 THEN b
    ELSE IF b = 0 THEN a
    ELSE (IF a % 2 # b % 2 THEN 1 ELSE 0) + 2 * BitXor(a \div 2, b \div 2)

Min(a, b) == IF a < b THEN a ELSE b

\* Python slice s[i:j] of a sequence, 0-based, clipped to the sequence
Slice(s, i, j) == SubSeq(s, Min(i, Len(s)) + 1, Min(j, Len(s)))

\* a stride that stops one element early when the length is odd
Stride2_short(s, i) == [k \in 1..((Len(s) - i) \div 2) |-> s[i + 2 * (k - 1) + 1]]

\* Python slice s[i::2]
Stride2(s, i) == [k \in 1..((Len(s) - i + 1) \div 2) |-> s[i + 2 * (k - 1) + 1]]

(***************************************************************************)
(* Outcomes of a call                                                      *)
(***************************************************************************)
\* no function of the bindings is running
NoPy == [value |-> << >>, variant |-> << >>, code |-> "", mask |-> 0, flags |-> {}]

NoResult == [kind |-> "pending", exc |-> "", val |-> <<>>]
None == [kind |-> "none", exc |-> "", val |-> <<>>]
Value(v) == [kind |-> "value", exc |-> "", val |-> v]
Raise(e) == [kind |-> "raise", exc |-> e, val |-> <<>>]

(***************************************************************************)
(* USB transfers (pyusb dev.write, dev.read, usb.control.clear_feature)    *)
(***************************************************************************)
NoCheck == 0 - 1
DefaultTimeout == 0 - 1

\* dev.write(ep, data); chk is the count an assert compares the return with
Write(ep, data, chk) ==
    [k |-> "write", ep |-> ep, data |-> data, n |-> Len(data),
     timeout |-> DefaultTimeout, chk |-> chk, need |-> 0]

\* dev.read(ep, n, timeout); chk is the length an assert compares len(y) with,
\* need the number of bytes the code afterwards indexes into
Read(ep, n, timeout, chk, need) ==
    [k |-> "read", ep |-> ep, data |-> <<>>, n |-> n,
     timeout |-> timeout, chk |-> chk, need |-> need]

\* usb.control.clear_feature(dev, ENDPOINT_HALT, ep)
ClearHalt(ep) ==
    [k |-> "clear_halt", ep |-> ep, data |-> <<>>, n |-> 0,
     timeout |-> DefaultTimeout, chk |-> NoCheck, need |-> 0]

\* what the log keeps of a transfer: the request as it went to the device
Logged(t) == [k |-> t.k, ep |-> t.ep, data |-> t.data, n |-> t.n, timeout |-> t.timeout]

(***************************************************************************)
(* Header-register table                                                   *)
(***************************************************************************)
\* a table whose last line was copied from the one before, the register left as it was
rmap_copied ==
    << <<REG.TRIGGER_LEVEL, 0>>, <<REG.TRIGGER_MODE, 1>>,
       <<REG.TRIGGERHOLDOFF_B0, 2>>, <<REG.TRIGGERHOLDOFF_B1, 3>>,
       <<REG.TRIGGERHOLDOFF_B2, 4>>, <<REG.TRIGGERHOLDOFF_B3, 5>>,
       <<REG.CHA_YOFFSET_VOLTAGE, 6>>, <<REG.CHB_YOFFSET_VOLTAGE, 7>>,
       <<REG.DIVIDER_MULTIPLIER, 8>>, <<REG.INPUT_DECIMATION, 9>>,
       <<REG.TRIGGER_PW_MIN_B0, 10>>, <<REG.TRIGGER_PW_MIN_B1, 11>>,
       <<REG.TRIGGER_PW_MIN_B2, 12>>, <<REG.TRIGGER_PW_MAX_B0, 13>>,
       <<REG.TRIGGER_PW_MAX_B1, 14>>, <<REG.TRIGGER_PW_MAX_B2, 15>>,
       <<REG.TRIGGER_PWM, 16>>, <<REG.DIGITAL_TRIGGER_RISING, 17>>,
       <<REG.DIGITAL_TRIGGER_FALLING, 18>>, <<REG.DIGITAL_TRIGGER_HIGH, 19>>,
       <<REG.DIGITAL_TRIGGER_LOW, 20>>, <<REG.ACQUISITION_DEPTH, 21>>,
       <<REG.VIEW_DECIMATION, 22>>, <<REG.VIEW_OFFSET_B0, 23>>,
       <<REG.VIEW_OFFSET_B1, 24>>, <<REG.VIEW_OFFSET_B2, 25>>,
       <<REG.VIEW_ACQUISITIONS, 26>>, <<REG.VIEW_BURSTS, 27>>,
       <<REG.VIEW_EXCESS_B0, 28>>, <<REG.VIEW_EXCESS_B0, 29>> >>

rmap ==
    << <<REG.TRIGGER_LEVEL, 0>>, <<REG.TRIGGER_MODE, 1>>,
       <<REG.TRIGGERHOLDOFF_B0, 2>>, <<REG.TRIGGERHOLDOFF_B1, 3>>,
       <<REG.TRIGGERHOLDOFF_B2, 4>>, <<REG.TRIGGERHOLDOFF_B3, 5>>,
       <<REG.CHA_YOFFSET_VOLTAGE, 6>>, <<REG.CHB_YOFFSET_VOLTAGE, 7>>,
       <<REG.DIVIDER_MULTIPLIER, 8>>, <<REG.INPUT_DECIMATION, 9>>,
       <<REG.TRIGGER_PW_MIN_B0, 10>>, <<REG.TRIGGER_PW_MIN_B1, 11>>,
       <<REG.TRIGGER_PW_MIN_B2, 12>>, <<REG.TRIGGER_PW_MAX_B0, 13>>,
       <<REG.TRIGGER_PW_MAX_B1, 14>>, <<REG.TRIGGER_PW_MAX_B2, 15>>,
       <<REG.TRIGGER_PWM, 16>>, <<REG.DIGITAL_TRIGGER_RISING, 17>>,
       <<REG.DIGITAL_TRIGGER_FALLING, 18>>, <<REG.DIGITAL_TRIGGER_HIGH, 19>>,
       <<REG.DIGITAL_TRIGGER_LOW, 20>>, <<REG.ACQUISITION_DEPTH, 21>>,
       <<REG.VIEW_DECIMATION, 22>>, <<REG.VIEW_OFFSET_B0, 23>>,
       <<REG.VIEW_OFFSET_B1, 24>>, <<REG.VIEW_OFFSET_B2, 25>>,
       <<REG.VIEW_ACQUISITIONS, 26>>, <<REG.VIEW_BURSTS, 27>>,
       <<REG.VIEW_EXCESS_B0, 28>>, <<REG.VIEW_EXCESS_B1, 29>> >>

RegMatches(x, reg) == x[1] = reg

\* a lookup that takes the first match and answers 0 when there is none
REG2HREG_lenient(reg) ==
    LET matches == SelectSeq(rmap, LAMBDA x : RegMatches(x, reg))
    IN  IF Len(matches) > 1
        THEN Raise("Exception")
        ELSE IF Len(matches) = 0 THEN Value(<<0>>) ELSE Value(<<matches[1][2]>>)

REG2HREG(reg) ==
    LET matches == SelectSeq(rmap, LAMBDA x : RegMatches(x, reg))
    IN  IF Len(matches) # 1
        THEN Raise("Exception")
        ELSE Value(<<matches[1][2]>>)

(***************************************************************************)
(* Command codec and register / strobe / SPI tunnel: the transfers each    *)
(* function issues, in program order                                       *)
(***************************************************************************)
\* get_pic_ver without its response read
get_pic_ver_noread ==
    << Write(EP_CMD_OUT, <<HEADER_CMD_BYTE, PIC_CMDS.PIC_VERSION>>, 2) >>

get_pic_ver ==
    << Write(EP_CMD_OUT, <<HEADER_CMD_BYTE, PIC_CMDS.PIC_VERSION>>, 2),
       Read(EP_CMD_IN, SZ_RESPONSE, DefaultTimeout, 16, 0) >>

get_eeprom(i, n) ==
    << Write(EP_CMD_OUT, <<HEADER_CMD_BYTE, PIC_CMDS.EEPROM_READ, i, n>>, NoCheck),
       Read(EP_CMD_IN, SZ_RESPONSE, DefaultTimeout, 16, 0) >>

get_rom(i, n) ==
    IF i + n > FLASH_USER_ADDRESS_MASK
    THEN << >>
    ELSE << Write(EP_CMD_OUT,
                  <<HEADER_CMD_BYTE, PIC_CMDS.FLASH_ROM_READ, BitAnd(i, 255), n,
                    BitAnd(Shr(i, 8), 255)>>, NoCheck),
            Read(EP_CMD_IN, SZ_RESPONSE, DefaultTimeout, 16, 0) >>

\* for n in range(a, b, step)
PyRange(a, b, step) == [k \in 1..((b - a + step - 1) \div step) |-> a + (k - 1) * step]

RECURSIVE GainReads(_)
\* for n in range(OFF_GAINCAL, OFF_MAG, 4): d = get_rom(OFF_GAINCAL + n, 4)
GainReads(ns) ==
    IF ns = << >> THEN << >>
    ELSE get_rom(OFF_GAINCAL + Head(ns), 4) \o GainReads(Tail(ns))

dump_calibration_raw ==
    get_rom(OFF_PLUGCNT, 4)
    \o get_rom(OFF_ADCTV, 1)
    \o GainReads(PyRange(OFF_GAINCAL, OFF_MAG, 4))

get_i2c_reg(i2caddr, idx) ==
    << Write(EP_CMD_OUT,
             <<HEADER_CMD_BYTE, PIC_CMDS.I2C_WRITE, 2, Shl(i2caddr, 1), idx>>, NoCheck),
       Write(EP_CMD_OUT, <<HEADER_CMD_BYTE, PIC_CMDS.I2C_READ, i2caddr, 1>>, NoCheck),
       Read(EP_CMD_IN, SZ_RESPONSE, DefaultTimeout, NoCheck, 5) >>

get_fpga_ver ==
    get_i2c_reg(FPGA_I2C_ADDRESS_ROM, 0) \o get_i2c_reg(FPGA_I2C_ADDRESS_ROM, 1)
    \o get_i2c_reg(FPGA_I2C_ADDRESS_ROM, 2) \o get_i2c_reg(FPGA_I2C_ADDRESS_ROM, 3)

pic_reset ==
    << Write(EP_CMD_OUT, <<HEADER_CMD_BYTE, PIC_CMDS.PIC_RESET>>, 2) >>

\* a single-byte write whose length byte counts no data byte
i2c_write1_len2(reg, val) ==
    << Write(EP_CMD_OUT,
             <<HEADER_CMD_BYTE, PIC_CMDS.I2C_WRITE, 2,
               Shl(FPGA_I2C_ADDRESS_SETTINGS, 1), reg, val>>, NoCheck) >>

i2c_write1(reg, val) ==
    << Write(EP_CMD_OUT,
             <<HEADER_CMD_BYTE, PIC_CMDS.I2C_WRITE, 3,
               Shl(FPGA_I2C_ADDRESS_SETTINGS, 1), reg, val>>, NoCheck) >>

i2c_writen(reg, data) ==
    << Write(EP_CMD_OUT,
             <<HEADER_CMD_BYTE, PIC_CMDS.I2C_WRITE, 2 + Len(data),
               Shl(FPGA_I2C_ADDRESS_SETTINGS, 1), reg>> \o data, NoCheck) >>

\* a strobe update that leaves out the shift
strobe_set_noshift(strobe, val) ==
    i2c_write1(REG.STROBE_UPDATE, BitOr(strobe, val))

\* a strobe update that shifts by (1 | val) instead of or-ing val in
strobe_set_shiftor(strobe, val) ==
    i2c_write1(REG.STROBE_UPDATE, Shl(strobe, BitOr(1, val)))

strobe_set(strobe, val) ==
    i2c_write1(REG.STROBE_UPDATE, BitOr(Shl(strobe, 1), val))

\* an SPI write that raises INIT_SPI_TRANSFER without lowering it first
spi_write_nolow(reg, val) ==
    i2c_write1(REG.SPI_ADDRESS, reg)
    \o i2c_write1(REG.SPI_WRITE_VALUE, val)
    \o strobe_set(STR.INIT_SPI_TRANSFER, 1)

spi_write(reg, val) ==
    i2c_write1(REG.SPI_ADDRESS, reg)
    \o i2c_write1(REG.SPI_WRITE_VALUE, val)
    \o strobe_set(STR.INIT_SPI_TRANSFER, 0)
    \o strobe_set(STR.INIT_SPI_TRANSFER, 1)

spi_read(reg) ==
    i2c_write1(REG.SPI_ADDRESS, BitOr(reg, 128))
    \o strobe_set(STR.INIT_SPI_TRANSFER, 0)
    \o strobe_set(STR.INIT_SPI_TRANSFER, 1)
    \o get_i2c_reg(FPGA_I2C_ADDRESS_ROM, 4)

\* an ADC init that sets power management before the soft reset
configure_adc_resetlate ==
    spi_write(0, 3) \o spi_write(10, 90) \o spi_write(1, 2) \o spi_write(2, 0)
    \o spi_write(3, 24) \o spi_write(4, 0)

configure_adc ==
    spi_write(10, 90) \o spi_write(0, 3) \o spi_write(1, 2) \o spi_write(2, 0)
    \o spi_write(3, 24) \o spi_write(4, 0)

RECURSIVE ZeroSpi(_)
\* for spireg in regs: spi_write(spireg, 0)
ZeroSpi(regs) ==
    IF regs = << >> THEN << >> ELSE spi_write(Head(regs), 0) \o ZeroSpi(Tail(regs))

\* a zeroing whose extra write goes back to the first register of the list
bringup_adc_zero_again ==
    ZeroSpi(<<0, 1, 2, 3, 4, 5, 6, 8>>)
    \o spi_write(0, 0)

\* post_blob_load, the ADC register reset (lines 494-496)
bringup_adc_zero ==
    ZeroSpi(<<0, 1, 2, 3, 4, 5, 6, 8>>)
    \o spi_write(10, 0)

\* post_blob_load up to the trigger defaults (lines 481-507)
bringup_registers ==
    get_fpga_ver
    \o i2c_write1(REG.DIGITAL_OUT, 0)
    \o i2c_write1(REG.GENERATOR_SAMPLES_B0, 255)
    \o i2c_write1(REG.GENERATOR_SAMPLES_B1, 7)
    \o strobe_set(STR.GLOBAL_RESET, 1)
    \o << Write(EP_CMD_OUT, <<HEADER_CMD_BYTE, PIC_CMDS.PIC_WRITE, 0, 1, 0>>, NoCheck) >>
    \o bringup_adc_zero
    \o i2c_writen(REG.DIVIDER_MULTIPLIER,
                  <<153, 112, 112, 0, 126, 0, 0, 0, 0, 255, 255, 255, 0, 0, 0, 0,
                    0, 0, 0, 0, 0, 0, 0, 6, 0, 0, 0>>)
    \o i2c_writen(REG.DIGITAL_TRIGGER_FALLING, <<0, 0, 0>>)
    \o i2c_writen(REG.GENERATOR_DECIMATION_B0, <<0, 0, 0>>)

\* a strobe block that sets SCOPE_UPDATE before SCOPE_ENABLE and leaves out
\* the second VIEW_UPDATE pulse
bringup_strobes_reordered ==
    strobe_set(STR.GENERATOR_TO_AWG, 0)
    \o strobe_set(STR.LA_ENABLE, 0)
    \o strobe_set(STR.SCOPE_UPDATE, 1)
    \o strobe_set(STR.SCOPE_ENABLE, 1)
    \o strobe_set(STR.FORCE_TRIGGER, 1)
    \o strobe_set(STR.VIEW_UPDATE, 1)
    \o strobe_set(STR.VIEW_SEND_OVERVIEW, 0)
    \o strobe_set(STR.VIEW_SEND_PARTIAL, 0)
    \o strobe_set(STR.ACQ_START, 0)
    \o strobe_set(STR.ACQ_STOP, 0)
    \o strobe_set(STR.CHA_DCCOUPLING, 1)
    \o strobe_set(STR.CHB_DCCOUPLING, 1)
    \o strobe_set(STR.ENABLE_ADC, 1)
    \o strobe_set(STR.ENABLE_NEG, 1)
    \o strobe_set(STR.ENABLE_RAM, 1)
    \o strobe_set(STR.DOUT_3V_5V, 0)
    \o strobe_set(STR.EN_OPAMP_B, 0)
    \o strobe_set(STR.GENERATOR_TO_DIGITAL, 0)
    \o strobe_set(STR.ROLL, 0)
    \o strobe_set(STR.LA_CHANNEL, 0)
    \o strobe_set(STR.SCOPE_UPDATE, 1)

\* post_blob_load, the strobe block (lines 509-530)
bringup_strobes ==
    strobe_set(STR.GENERATOR_TO_AWG, 0)
    \o strobe_set(STR.LA_ENABLE, 0)
    \o strobe_set(STR.SCOPE_ENABLE, 1)
    \o strobe_set(STR.SCOPE_UPDATE, 1)
    \o strobe_set(STR.FORCE_TRIGGER, 1)
    \o strobe_set(STR.VIEW_UPDATE, 1)
    \o strobe_set(STR.VIEW_SEND_OVERVIEW, 0)
    \o strobe_set(STR.VIEW_SEND_PARTIAL, 0)
    \o strobe_set(STR.ACQ_START, 0)
    \o strobe_set(STR.ACQ_STOP, 0)
    \o strobe_set(STR.CHA_DCCOUPLING, 1)
    \o strobe_set(STR.CHB_DCCOUPLING, 1)
    \o strobe_set(STR.ENABLE_ADC, 1)
    \o strobe_set(STR.ENABLE_NEG, 1)
    \o strobe_set(STR.ENABLE_RAM, 1)
    \o strobe_set(STR.DOUT_3V_5V, 0)
    \o strobe_set(STR.EN_OPAMP_B, 0)
    \o strobe_set(STR.GENERATOR_TO_DIGITAL, 0)
    \o strobe_set(STR.ROLL, 0)
    \o strobe_set(STR.LA_CHANNEL, 0)
    \o strobe_set(STR.SCOPE_UPDATE, 1)
    \o strobe_set(STR.VIEW_UPDATE, 1)

\* a start sequence that commits with SCOPE_UPDATE before the view registers
\* are written
bringup_start_commitfirst ==
    i2c_writen(REG.TRIGGER_LEVEL, <<127, 80>>)
    \o i2c_write1(REG.ACQUISITION_DEPTH, 1)
    \o strobe_set(STR.SCOPE_UPDATE, 1)
    \o i2c_writen(REG.VIEW_DECIMATION, <<1, 0, 0, 0>>)
    \o i2c_writen(REG.VIEW_BURSTS, <<6, 0, 0>>)
    \o strobe_set(STR.LA_ENABLE, 0)
    \o strobe_set(STR.VIEW_SEND_OVERVIEW, 0)
    \o strobe_set(STR.VIEW_SEND_PARTIAL, 0)
    \o strobe_set(STR.ACQ_START, 1)
    \o strobe_set(STR.LA_CHANNEL, 0)
    \o strobe_set(STR.VIEW_UPDATE, 1)

\* a start sequence without the three strobe writes that follow ACQ_START
bringup_start_stopatacq ==
    i2c_writen(REG.TRIGGER_LEVEL, <<127, 80>>)
    \o i2c_write1(REG.ACQUISITION_DEPTH, 1)
    \o i2c_writen(REG.VIEW_DECIMATION, <<1, 0, 0, 0>>)
    \o i2c_writen(REG.VIEW_BURSTS, <<6, 0, 0>>)
    \o strobe_set(STR.LA_ENABLE, 0)
    \o strobe_set(STR.VIEW_SEND_OVERVIEW, 0)
    \o strobe_set(STR.VIEW_SEND_PARTIAL, 0)
    \o strobe_set(STR.SCOPE_UPDATE, 1)
    \o strobe_set(STR.ACQ_START, 1)

\* post_blob_load after configure_adc (lines 539-549)
bringup_start ==
    i2c_writen(REG.TRIGGER_LEVEL, <<127, 80>>)
    \o i2c_write1(REG.ACQUISITION_DEPTH, 1)
    \o i2c_writen(REG.VIEW_DECIMATION, <<1, 0, 0, 0>>)
    \o i2c_writen(REG.VIEW_BURSTS, <<6, 0, 0>>)
    \o strobe_set(STR.LA_ENABLE, 0)
    \o strobe_set(STR.VIEW_SEND_OVERVIEW, 0)
    \o strobe_set(STR.VIEW_SEND_PARTIAL, 0)
    \o strobe_set(STR.ACQ_START, 1)
    \o strobe_set(STR.LA_CHANNEL, 0)
    \o strobe_set(STR.SCOPE_UPDATE, 1)
    \o strobe_set(STR.VIEW_UPDATE, 1)

post_blob_load ==
    bringup_registers
    \o bringup_strobes
    \o << ClearHalt(EP_DATA) >>
    \o configure_adc
    \o bringup_start

(***************************************************************************)
(* Firmware loader                                                         *)
(***************************************************************************)
RECURSIVE Chunks_skip(_)
\* a chunking loop whose remainder starts one byte late
Chunks_skip(blob) ==
    LET chunk == Slice(blob, 0, CHUNK)
        rem == Slice(blob, CHUNK + 1, Len(blob))
    IN  IF chunk = << >>
        THEN << >>
        ELSE << Write(EP_CMD_OUT, chunk, NoCheck) >> \o Chunks_skip(rem)

RECURSIVE Chunks(_)
\* chunk, rem = blob[:2048], blob[2048:]; while chunk: write(chunk); ...
Chunks(blob) ==
    LET chunk == Slice(blob, 0, CHUNK)
        rem == Slice(blob, CHUNK, Len(blob))
    IN  IF chunk = << >>
        THEN << >>
        ELSE << Write(EP_CMD_OUT, chunk, NoCheck) >> \o Chunks(rem)

\* a padding loop that stops one write early
Padding_short ==
    [i \in 1..(PADDING - 1) |-> Write(EP_CMD_OUT, [j \in 1..32 |-> PAD_BYTE], NoCheck)]

\* for i in range(int(PADDING)): dev.write(EP_CMD_OUT, [0xff] * 32)
Padding ==
    [i \in 1..PADDING |-> Write(EP_CMD_OUT, [j \in 1..32 |-> PAD_BYTE], NoCheck)]

\* cmd = int(plen / PACKSIZE + PADDING)
PacketCount(plen) == (plen \div PACKSIZE) + PADDING

\* an upload that sends PROGRAM_FPGA_END before the padding
load_blob_endfirst(blob) ==
    LET cmd == PacketCount(Len(blob))
    IN  << Write(EP_CMD_OUT,
                 <<HEADER_CMD_BYTE, PIC_CMDS.PROGRAM_FPGA_START,
                   Shr(cmd, 8), BitAnd(cmd, 255)>>, NoCheck),
           ClearHalt(EP_DATA) >>
        \o Chunks(blob)
        \o << Write(EP_CMD_OUT, <<HEADER_CMD_BYTE, PIC_CMDS.PROGRAM_FPGA_END>>, NoCheck) >>
        \o Padding
        \o << ClearHalt(EP_DATA) >>

load_blob(blob) ==
    LET cmd == PacketCount(Len(blob))
    IN  << Write(EP_CMD_OUT,
                 <<HEADER_CMD_BYTE, PIC_CMDS.PROGRAM_FPGA_START,
                   Shr(cmd, 8), BitAnd(cmd, 255)>>, NoCheck),
           ClearHalt(EP_DATA) >>
        \o Chunks(blob)
        \o Padding
        \o << Write(EP_CMD_OUT, <<HEADER_CMD_BYTE, PIC_CMDS.PROGRAM_FPGA_END>>, NoCheck),
              ClearHalt(EP_DATA) >>

(***************************************************************************)
(* Acquisition reader: header parsing and decoding (tryread after its two  *)
(* reads)                                                                  *)
(***************************************************************************)
Magic == <<76, 78>>

\* an unpacking that leaves out the two pad bytes before the flags
Unpack_nopad(h) ==
    [ magic    |-> SubSeq(h, 1, 2),
      hoff     |-> IF h[3] >= 128 THEN h[3] - 256 ELSE h[3],
      bpb      |-> IF h[4] >= 128 THEN h[4] - 256 ELSE h[4],
      nburst   |-> h[5] + 256 * h[6],
      off      |-> h[7] + 256 * h[8],
      flags    |-> h[9],
      aid      |-> h[10],
      hregs    |-> SubSeq(h, 14, 43),
      hstrobes |-> SubSeq(h, 44, 45) ]

\* struct.unpack("2sbbHH2xBB3x30s2s17x", hdr) on a little-endian host
Unpack(h) ==
    [ magic    |-> SubSeq(h, 1, 2),
      hoff     |-> IF h[3] >= 128 THEN h[3] - 256 ELSE h[3],
      bpb      |-> IF h[4] >= 128 THEN h[4] - 256 ELSE h[4],
      nburst   |-> h[5] + 256 * h[6],
      off      |-> h[7] + 256 * h[8],
      flags    |-> h[11],
      aid      |-> h[12],
      hregs    |-> SubSeq(h, 16, 45),
      hstrobes |-> SubSeq(h, 46, 47) ]

\* the header register at the offset REG2HREG gives (0-based in the source)
HReg(hregs, reg) == hregs[REG2HREG(reg).val[1] + 1]

\* a decoder that compares the whole flags byte with each flag value
FlagNames_equal(flags) == { n \in DOMAIN HDRF : flags = HDRF[n] }

\* for hf in HDRF: if flags & hf.value: print(hf.name)
FlagNames(flags) == { n \in DOMAIN HDRF : BitAnd(flags, HDRF[n]) # 0 }

\* a decoder that applies the mask to the shift count instead of the value
DivMulIndex_maskshift(divmul, shift) == Shr(divmul, BitAnd(shift, 3))

\* divmul >> shift & 0x3
DivMulIndex(divmul, shift) == BitAnd(Shr(divmul, shift), 3)

\* a classifier that tests IsFullAcqusition before IsOverview
Classify_fullfirst(flags) ==
    IF BitAnd(flags, HDRF.IsFullAcqusition) # 0 THEN "ACQUISITION"
    ELSE IF BitAnd(flags, HDRF.IsOverview) # 0 THEN "OVERVIEW"
    ELSE "VIEWPORT"

Classify(flags) ==
    IF BitAnd(flags, HDRF.IsOverview) # 0 THEN "OVERVIEW"
    ELSE IF BitAnd(flags, HDRF.IsFullAcqusition) # 0 THEN "ACQUISITION"
    ELSE "VIEWPORT"

NoOut ==
    [ exc |-> "", parsed |-> FALSE, magic |-> << >>, hoff |-> 0, bpb |-> 0,
      nburst |-> 0, off |-> 0, aid |-> 0, hregs |-> << >>, hstrobes |-> << >>,
      flags |-> 0, flagnames |-> {},
      div |-> << >>, mul |-> << >>, chad |-> << >>, chbd |-> << >>,
      kind |-> "", decimation |-> 0, acq_depth |-> 0, vp_excess |-> 0 ]

\* the per-channel loop: one table lookup after the other, the first index
\* outside a table ends tryread with IndexError
RECURSIVE DecodeChannels(_, _, _)
DecodeChannels(divmul, ch, acc) ==
    IF ch > 1 THEN acc
    ELSE LET di == DivMulIndex(divmul, 0 + ch * 4)
             mi == DivMulIndex(divmul, 2 + ch * 4)
         IN  IF di >= Len(validDividers) \/ mi >= Len(validMultipliers)
             THEN [acc EXCEPT !.exc = "IndexError"]
             ELSE DecodeChannels(divmul, ch + 1,
                     [acc EXCEPT !.div = Append(@, validDividers[di + 1]),
                                 !.mul = Append(@, validMultipliers[mi + 1])])

tryread_decode(h, data) ==
    IF Len(h) # SZ_HDR
    THEN [NoOut EXCEPT !.exc = "struct.error"]
    ELSE
      LET u == Unpack(h)
          o1 == [NoOut EXCEPT !.parsed = TRUE, !.magic = u.magic, !.hoff = u.hoff,
                              !.bpb = u.bpb, !.nburst = u.nburst, !.off = u.off,
                              !.aid = u.aid, !.hregs = u.hregs,
                              !.hstrobes = u.hstrobes, !.flags = u.flags,
                              !.flagnames = FlagNames(u.flags)]
          o2 == DecodeChannels(HReg(u.hregs, REG.DIVIDER_MULTIPLIER), 0, o1)
      IN  IF o2.exc # "" THEN o2
          ELSE [o2 EXCEPT
                  !.chad = Stride2(data, 0),
                  !.chbd = Stride2(data, 1),
                  !.kind = Classify(u.flags),
                  !.decimation = HReg(u.hregs, REG.INPUT_DECIMATION),
                  !.acq_depth = Shl(2048, HReg(u.hregs, REG.ACQUISITION_DEPTH)),
                  !.vp_excess = Shl(HReg(u.hregs, REG.VIEW_EXCESS_B0)
                                    + HReg(u.hregs, REG.VIEW_EXCESS_B1), 8)]

(***************************************************************************)
(* The device: what it may answer                                          *)
(***************************************************************************)
Pattern(len, seed) == [i \in 1..len |-> (seed * 101 + i * 7) % 256]

\* command responses: 16 bytes, or a short transfer
Responses == { Pattern(len, seed) : len \in {0, 4, 5, 16}, seed \in 0..MaxSeed }

\* a 64-byte block with the given first two bytes, flags and DIVIDER_MULTIPLIER
MkHeader(m, flags, divmul) ==
    [i \in 1..SZ_HDR |->
        IF i <= 2 THEN m[i]
        ELSE IF i = 11 THEN flags
        ELSE IF i = 24 THEN divmul
        ELSE (i - 1) % 8]

\* what a 64-byte read of the data endpoint may return
MissHeaders == { MkHeader(<<0, 0>>, 1, 153), MkHeader(<<76, 0>>, 1, 153), << >>, <<76>> }
HitHeaders == { MkHeader(Magic, 1, 153), MkHeader(Magic, 130, 3), Magic }
Headers == MissHeaders \cup HitHeaders

\* what the 4096-byte payload read may return
Payloads == { Pattern(len, 1) : len \in {0, 1, 2, 5} }

\* firmware blobs
Blob(len) == [i \in 1..len |-> (i * 7) % 251]
BlobLens == { k * CHUNK + d : k \in 0..MaxChunks, d \in {0, 1, 33, 2047} }

(***************************************************************************)
(* State machine                                                           *)
(***************************************************************************)
Init ==
    /\ pc = "idle"
    /\ op = ""
    /\ args = << >>
    /\ todo = << >>
    /\ xfers = << >>
    /\ ret = << >>
    /\ result = NoResult
    /\ tries = 0
    /\ rx = << >>
    /\ hdr = << >>
    /\ out = NoOut
    /\ run = << >>
    /\ py = NoPy

\* a call of a function whose transfers do not depend on what the device answers
Begin(name, a, script) ==
    /\ pc = "idle"
    /\ pc' = "running"
    /\ op' = name
    /\ args' = a
    /\ todo' = script
    /\ xfers' = << >>
    /\ ret' = << >>
    /\ result' = NoResult
    /\ UNCHANGED <<tries, rx, hdr, out, run, py>>

Call_get_pic_ver == Begin("get_pic_ver", << >>, get_pic_ver)

Call_get_eeprom ==
    \E i \in {0, 255}, n \in {1, 4} : Begin("get_eeprom", <<i, n>>, get_eeprom(i, n))

Call_get_rom ==
    \E i \in {0, 4, 1156, 4094, 4095}, n \in {1, 4, 11, 12} :
        Begin("get_rom", <<i, n>>, get_rom(i, n))

Call_dump_calibration_raw ==
    Begin("dump_calibration_raw", << >>, dump_calibration_raw)

Call_get_i2c_reg ==
    \E a \in {FPGA_I2C_ADDRESS_SETTINGS, FPGA_I2C_ADDRESS_ROM}, idx \in {0, 4, 7} :
        Begin("get_i2c_reg", <<a, idx>>, get_i2c_reg(a, idx))

Call_pic_reset == Begin("pic_reset", << >>, pic_reset)

Call_i2c_write1 ==
    \E reg \in {REG.STROBE_UPDATE, REG.DIGITAL_OUT}, val \in {0, 1, 255} :
        Begin("i2c_write1", <<reg, val>>, i2c_write1(reg, val))

Call_i2c_writen ==
    \E reg \in {REG.TRIGGER_LEVEL, REG.VIEW_BURSTS},
       data \in {<< >>, <<9>>, <<127, 80>>, <<6, 0, 0>>} :
        Begin("i2c_writen", <<reg>> \o data, i2c_writen(reg, data))

Call_strobe_set ==
    \E s \in StrIds, v \in {0, 1} : Begin("strobe_set", <<s, v>>, strobe_set(s, v))

Call_spi_write ==
    \E reg \in {0, 10}, val \in {0, 90} :
        Begin("spi_write", <<reg, val>>, spi_write(reg, val))

Call_spi_read == \E reg \in {0, 10} : Begin("spi_read", <<reg>>, spi_read(reg))

Call_post_blob_load == Begin("post_blob_load", << >>, post_blob_load)

Call_load_blob ==
    \E len \in BlobLens : Begin("load_blob", <<len>>, load_blob(Blob(len)))

\* a return that takes the byte before the one the code indexes
ReturnValue_byte3 ==
    CASE op = "get_rom" ->
            IF args[1] + args[2] > FLASH_USER_ADDRESS_MASK
            THEN None
            ELSE Value(Slice(ret, 5, 5 + args[2]))
      [] op \in {"get_i2c_reg", "spi_read"} -> Value(<<ret[4]>>)
      [] OTHER -> None

\* what the function hands back once its last transfer is done
ReturnValue ==
    CASE op = "get_rom" ->
            IF args[1] + args[2] > FLASH_USER_ADDRESS_MASK
            THEN None
            ELSE Value(Slice(ret, 5, 5 + args[2]))
      [] op \in {"get_i2c_reg", "spi_read"} -> Value(<<ret[5]>>)
      [] OTHER -> None

\* an exception leaves the function: nothing more is sent
Fail(e) ==
    /\ pc' = "raised"
    /\ result' = Raise(e)
    /\ todo' = << >>

\* the counts dev.write may return for a buffer of n bytes
WriteCounts(n) == {n} \cup (IF n > 0 THEN {n - 1} ELSE {})

dev_write ==
    /\ pc = "running"
    /\ todo # << >>
    /\ Head(todo).k = "write"
    /\ xfers' = Append(xfers, Logged(Head(todo)))
    /\ \/ /\ Fail("USBError")
          /\ UNCHANGED ret
       \/ \E c \in WriteCounts(Head(todo).n) :
            /\ ret' = <<c>>
            /\ IF Head(todo).chk # NoCheck /\ c # Head(todo).chk
               THEN Fail("AssertionError")
               ELSE /\ todo' = Tail(todo)
                    /\ UNCHANGED <<pc, result>>
    /\ UNCHANGED <<op, args, tries, rx, hdr, out, run, py>>

dev_read ==
    /\ pc = "running"
    /\ todo # << >>
    /\ Head(todo).k = "read"
    /\ xfers' = Append(xfers, Logged(Head(todo)))
    /\ \/ /\ Fail("USBError")
          /\ UNCHANGED ret
       \/ \E y \in Responses :
            /\ ret' = y
            /\ IF Head(todo).chk # NoCheck /\ Len(y) # Head(todo).chk
               THEN Fail("AssertionError")
               ELSE IF Len(y) < Head(todo).need
               THEN Fail("IndexError")
               ELSE /\ todo' = Tail(todo)
                    /\ UNCHANGED <<pc, result>>
    /\ UNCHANGED <<op, args, tries, rx, hdr, out, run, py>>

clear_feature ==
    /\ pc = "running"
    /\ todo # << >>
    /\ Head(todo).k = "clear_halt"
    /\ xfers' = Append(xfers, Logged(Head(todo)))
    /\ \/ Fail("USBError")
       \/ /\ todo' = Tail(todo)
          /\ UNCHANGED <<pc, result>>
    /\ UNCHANGED <<op, args, ret, tries, rx, hdr, out, run, py>>

Return ==
    /\ pc = "running"
    /\ todo = << >>
    /\ pc' = "returned"
    /\ result' = ReturnValue
    /\ UNCHANGED <<op, args, todo, xfers, ret, tries, rx, hdr, out, run, py>>

\* the caller is done with the outcome; the next call starts from scratch
Reset ==
    /\ pc \in {"returned", "raised"}
    /\ pc' = "idle"
    /\ op' = ""
    /\ args' = << >>
    /\ todo' = << >>
    /\ xfers' = << >>
    /\ ret' = << >>
    /\ result' = NoResult
    /\ tries' = 0
    /\ rx' = << >>
    /\ hdr' = << >>
    /\ out' = NoOut
    /\ py' = NoPy
    /\ UNCHANGED run

(***************************************************************************)
(* Header-table lookup                                                     *)
(***************************************************************************)
\* a lookup that asks the device for the register before answering
Call_REG2HREG_io ==
    \E reg \in RegIds :
        /\ pc = "idle"
        /\ pc' = IF REG2HREG(reg).kind = "raise" THEN "raised" ELSE "returned"
        /\ op' = "REG2HREG"
        /\ args' = <<reg>>
        /\ result' = REG2HREG(reg)
        /\ xfers' = xfers \o get_i2c_reg(FPGA_I2C_ADDRESS_SETTINGS, reg)
        /\ UNCHANGED <<todo, ret, tries, rx, hdr, out, run, py>>

Call_REG2HREG ==
    \E reg \in RegIds :
        /\ pc = "idle"
        /\ pc' = IF REG2HREG(reg).kind = "raise" THEN "raised" ELSE "returned"
        /\ op' = "REG2HREG"
        /\ args' = <<reg>>
        /\ result' = REG2HREG(reg)
        /\ UNCHANGED <<todo, xfers, ret, tries, rx, hdr, out, run, py>>

(***************************************************************************)
(* Acquisition reader                                                      *)
(***************************************************************************)
HeaderRead == Read(EP_DATA, SZ_HDR, DATA_TIMEOUT, NoCheck, 0)
PayloadRead == Read(EP_DATA, FETCH_SIZE_MAX, DATA_TIMEOUT, NoCheck, 0)

BeginSeek(name) ==
    /\ pc = "idle"
    /\ pc' = "seeking"
    /\ op' = name
    /\ args' = << >>
    /\ todo' = << >>
    /\ xfers' = << >>
    /\ ret' = << >>
    /\ result' = NoResult
    /\ tries' = 0
    /\ rx' = << >>
    /\ hdr' = << >>
    /\ out' = NoOut
    /\ UNCHANGED <<run, py>>

Call_get_acquisition == BeginSeek("get_acquisition")

Call_tryread == BeginSeek("tryread")

\* read_forever enters its loop: the first tryread starts
Call_read_forever == BeginSeek("read_forever")

\* the functions that go on to the payload read once the header is found
Readers == {"tryread", "read_forever"}

\* a comparison that looks at the first byte of the header only
HeaderMatches_firstbyte(h) == Slice(h, 0, 1) = Slice(Magic, 0, 1)

\* hdr[:2].tolist() == [ord(q) for q in "LN"]
HeaderMatches(h) == Slice(h, 0, 2) = Magic

\* a seek that allows one more miss before it gives up
SeekGivesUp_late(t) == t > PACKAGE_MAX + 1

\* a seek that gives up once tries reaches PACKAGE_MAX
SeekGivesUp_early(t) == t >= PACKAGE_MAX

\* if tries > PACKAGE_MAX: raise
SeekGivesUp(t) == t > PACKAGE_MAX

\* one turn of the while loop of get_acquisition
get_acquisition ==
    /\ pc = "seeking"
    /\ xfers' = Append(xfers, Logged(HeaderRead))
    /\ \/ /\ Fail("USBError")
          /\ UNCHANGED <<ret, tries, rx, hdr>>
       \/ \E h \in Headers :
            /\ ret' = h
            /\ hdr' = h
            /\ rx' = Append(rx, HeaderMatches(h))
            /\ IF HeaderMatches(h)
               THEN /\ pc' = IF op \in Readers THEN "header" ELSE "returned"
                    /\ result' = IF op \in Readers THEN NoResult ELSE Value(h)
                    /\ UNCHANGED <<tries, todo>>
               ELSE /\ tries' = tries + 1
                    /\ IF SeekGivesUp(tries + 1)
                       THEN Fail("Exception")
                       ELSE UNCHANGED <<pc, result, todo>>
    /\ UNCHANGED <<op, args, out, run, py>>

\* tryread once get_acquisition has returned: the payload read and the decoding
tryread ==
    /\ pc = "header"
    /\ xfers' = Append(xfers, Logged(PayloadRead))
    /\ \/ /\ Fail("USBError")
          /\ UNCHANGED <<ret, out>>
       \/ \E data \in Payloads :
            LET o == tryread_decode(hdr, data)
            IN  /\ ret' = data
                /\ out' = o
                /\ pc' = IF o.exc # "" THEN "raised" ELSE "returned"
                /\ result' = IF o.exc # "" THEN Raise(o.exc) ELSE None
                /\ todo' = << >>
    /\ UNCHANGED <<op, args, tries, rx, hdr, run, py>>

\* while True: tryread() -- the frame is done, the next call of tryread starts
read_forever ==
    /\ pc = "returned"
    /\ op = "read_forever"
    /\ pc' = "seeking"
    /\ todo' = << >>
    /\ xfers' = << >>
    /\ ret' = << >>
    /\ result' = NoResult
    /\ tries' = 0
    /\ rx' = << >>
    /\ hdr' = << >>
    /\ out' = NoOut
    /\ UNCHANGED <<op, args, run, py>>

Next ==
    \/ Call_get_pic_ver
    \/ Call_get_eeprom
    \/ Call_get_rom
    \/ Call_dump_calibration_raw
    \/ Call_get_i2c_reg
    \/ Call_pic_reset
    \/ Call_i2c_write1
    \/ Call_i2c_writen
    \/ Call_strobe_set
    \/ Call_spi_write
    \/ Call_spi_read
    \/ Call_post_blob_load
    \/ Call_REG2HREG
    \/ Call_get_acquisition
    \/ Call_tryread
    \/ Call_read_forever
    \/ dev_write
    \/ dev_read
    \/ clear_feature
    \/ Return
    \/ get_acquisition
    \/ tryread
    \/ read_forever
    \/ Reset

Spec == Init /\ [][Next]_vars

(***************************************************************************)
(* The firmware loader on its own                                          *)
(***************************************************************************)
NextLoad ==
    \/ Call_load_blob
    \/ dev_write
    \/ clear_feature
    \/ Return
    \/ Reset

SpecLoad == Init /\ [][NextLoad]_vars

(***************************************************************************)
(* The decoding of tryread applied to every flags byte and every           *)
(* DIVIDER_MULTIPLIER byte                                                 *)
(***************************************************************************)
\* a 64-byte header whose bytes differ from their neighbours, some of them
\* above 127
RampHeader ==
    [i \in 1..SZ_HDR |->
        IF i <= 2 THEN Magic[i]
        ELSE IF i >= 16 /\ i <= 45 THEN (i - 16) % 16
        ELSE (i * 67) % 256]

ParseHeaders ==
    { MkHeader(Magic, f, 153) : f \in 0..255 }
    \cup { MkHeader(Magic, 1, b) : b \in 0..255 }
    \cup { RampHeader, Magic }

InitParse ==
    /\ pc = "header"
    /\ op = "tryread"
    /\ args = << >>
    /\ todo = << >>
    /\ xfers = << Logged(HeaderRead) >>
    /\ ret \in ParseHeaders
    /\ hdr = ret
    /\ result = NoResult
    /\ tries = 0
    /\ rx = << TRUE >>
    /\ out = NoOut
    /\ run = << >>
    /\ py = NoPy

NextParse == tryread

SpecParse == InitParse /\ [][NextParse]_vars

(***************************************************************************)
(* The module script: the statements at module level that talk to the      *)
(* device, in file order.  load_blob (line 648), pic_reset (line 650) and   *)
(* read_forever (line 657) are commented out in the source; an exception    *)
(* that leaves a call is caught nowhere and ends the program.               *)
(***************************************************************************)
Script ==
    << [line |-> 213, f |-> "get_pic_ver"],
       [line |-> 290, f |-> "get_fpga_ver"],
       [line |-> 649, f |-> "get_pic_ver"],
       [line |-> 651, f |-> "get_fpga_ver"],
       [line |-> 654, f |-> "post_blob_load"],
       [line |-> 656, f |-> "tryread"] >>

ScriptBody(f) ==
    CASE f = "get_pic_ver" -> get_pic_ver
      [] f = "get_fpga_ver" -> get_fpga_ver
      [] f = "post_blob_load" -> post_blob_load
      [] OTHER -> << >>

\* the next statement of the script starts its call
ScriptCall ==
    /\ Len(run) < Len(Script)
    /\ LET s == Script[Len(run) + 1]
       IN  IF s.f = "tryread"
           THEN BeginSeek(s.f)
           ELSE Begin(s.f, << >>, ScriptBody(s.f))

\* a script that catches the exception of a failed call and goes on
AfterCall_swallow(st) == "idle"

\* what becomes of the program when a call has ended with status st
AfterCall(st) == IF st = "raised" THEN "exited" ELSE "idle"

\* the call is over: the script goes on to its next statement, or the
\* exception ends the program
ScriptStep ==
    /\ pc \in {"returned", "raised"}
    /\ run' = Append(run, [f |-> op, st |-> pc])
    /\ pc' = AfterCall(pc)
    /\ UNCHANGED <<op, args, todo, xfers, ret, result, tries, rx, hdr, out, py>>

\* the end of the file
ScriptEnd ==
    /\ pc = "idle"
    /\ Len(run) = Len(Script)
    /\ pc' = "exited"
    /\ UNCHANGED <<op, args, todo, xfers, ret, result, tries, rx, hdr, out, run, py>>

NextRun ==
    \/ ScriptCall
    \/ dev_write
    \/ dev_read
    \/ clear_feature
    \/ Return
    \/ get_acquisition
    \/ tryread
    \/ ScriptStep
    \/ ScriptEnd

SpecRun == Init /\ [][NextRun]_vars

(***************************************************************************)
(* The Python bindings (bindings/python/sigrok/core/classes.py)            *)
(***************************************************************************)
\* Python values: the type and the value as a tuple of integers
\* (bool: 0 or 1; float: the number of halves; str: the character codes;
\* Fraction: numerator and denominator in lowest terms)
PyBool(b) == [t |-> "bool", v |-> <<b>>]
PyInt(n) == [t |-> "int", v |-> <<n>>]
PyFloat(k) == [t |-> "float", v |-> <<k>>]
PyStr(codes) == [t |-> "str", v |-> codes]

RECURSIVE Gcd(_, _)
Gcd(a, b) == IF b = 0 THEN a ELSE Gcd(b, a % b)

\* fractions.Fraction(n, d) with d # 0: kept in lowest terms
Fraction(n, d) == [t |-> "Fraction", v |-> <<n \div Gcd(n, d), d \div Gcd(n, d)>>]

\* isinstance(value, cls): bool is a subclass of int
isinstance(value, cls) == value.t = cls \/ (cls = "int" /\ value.t = "bool")

\* GVariants: the type string and the value
g_variant_new_uint64(n) == [ty |-> "t", v |-> <<n>>]
g_variant_new_boolean(b) == [ty |-> "b", v |-> <<b>>]
g_variant_new_double(k) == [ty |-> "d", v |-> <<k>>]
g_variant_new_string(codes) == [ty |-> "s", v |-> codes]
g_variant_new_tuple(a, b) == [ty |-> "(tt)", v |-> <<a.v[1], b.v[1]>>]

python_to_gvariant(value) ==
    IF isinstance(value, "int") THEN Value(<<g_variant_new_uint64(value.v[1])>>)
    ELSE IF isinstance(value, "bool") THEN Value(<<g_variant_new_boolean(value.v[1])>>)
    ELSE IF isinstance(value, "float") THEN Value(<<g_variant_new_double(value.v[1])>>)
    ELSE IF isinstance(value, "str") THEN Value(<<g_variant_new_string(value.v)>>)
    ELSE IF isinstance(value, "Fraction")
    THEN Value(<<g_variant_new_tuple(g_variant_new_uint64(value.v[1]),
                                     g_variant_new_uint64(value.v[2]))>>)
    ELSE Raise("NotImplementedError")

gvariant_to_python(value) ==
    IF value.ty = "t" THEN Value(<<PyInt(value.v[1])>>)
    ELSE IF value.ty = "b" THEN Value(<<PyBool(value.v[1])>>)
    ELSE IF value.ty = "d" THEN Value(<<PyFloat(value.v[1])>>)
    ELSE IF value.ty = "s" THEN Value(<<PyStr(value.v)>>)
    ELSE IF value.ty = "(tt)"
    THEN IF value.v[2] = 0 THEN Raise("ZeroDivisionError")
         ELSE Value(<<Fraction(value.v[1], value.v[2])>>)
    ELSE Raise("NotImplementedError")

\* the Python values and the GVariants tried
PyValues ==
    { PyBool(b) : b \in {0, 1} }
    \cup { PyInt(n) : n \in {0, 1, 2, 255} }
    \cup { PyFloat(k) : k \in {0, 1, 3} }
    \cup { PyStr(c) : c \in {<< >>, <<97>>, <<97, 98>>} }
    \cup { Fraction(n, d) : n \in 0..3, d \in 1..3 }
    \cup { [t |-> "NoneType", v |-> << >>] }

Variants ==
    { g_variant_new_uint64(8), g_variant_new_boolean(1), g_variant_new_double(3),
      g_variant_new_string(<<97>>),
      g_variant_new_tuple(g_variant_new_uint64(2), g_variant_new_uint64(4)),
      g_variant_new_tuple(g_variant_new_uint64(1), g_variant_new_uint64(0)),
      [ty |-> "i", v |-> <<5>>] }

Outcome(r) == IF r.kind = "raise" THEN "raised" ELSE "returned"

Call_python_to_gvariant ==
    \E value \in PyValues :
        /\ pc = "idle"
        /\ op' = "python_to_gvariant"
        /\ result' = python_to_gvariant(value)
        /\ pc' = Outcome(python_to_gvariant(value))
        /\ py' = [NoPy EXCEPT !.value = <<value>>,
                              !.variant = python_to_gvariant(value).val]
        /\ UNCHANGED <<args, todo, xfers, ret, tries, rx, hdr, out, run>>

\* gvariant_to_python applied to the variant python_to_gvariant returned
Call_gvariant_to_python ==
    /\ pc = "returned"
    /\ op = "python_to_gvariant"
    /\ op' = "gvariant_to_python"
    /\ result' = gvariant_to_python(py.variant[1])
    /\ pc' = Outcome(gvariant_to_python(py.variant[1]))
    /\ UNCHANGED <<args, todo, xfers, ret, tries, rx, hdr, out, run, py>>

\* the attributes an Error instance has: those of Exception
ErrorAttributes == {"args"}

\* what sr_config_get may answer
ConfigCodes == {"SR_OK", "SR_ERR_NA", "SR_ERR", "SR_ERR_ARG"}

\* HardwareDevice.__getattr__ once the key is found: check(sr_config_get(...))
\* raises Error(code), the handler reads error.errno
HardwareDevice_getattr(code, data) ==
    IF code # "SR_OK"
    THEN IF "errno" \notin ErrorAttributes THEN Raise("AttributeError")
         ELSE IF code = "SR_ERR_NA" THEN Raise("NotImplementedError")
         ELSE Raise("AttributeError")
    ELSE gvariant_to_python(data)

Call_HardwareDevice_getattr ==
    \E code \in ConfigCodes, data \in Variants :
        /\ pc = "idle"
        /\ op' = "__getattr__"
        /\ result' = HardwareDevice_getattr(code, data)
        /\ pc' = Outcome(HardwareDevice_getattr(code, data))
        /\ py' = [NoPy EXCEPT !.code = code, !.variant = <<data>>]
        /\ UNCHANGED <<args, todo, xfers, ret, tries, rx, hdr, out, run>>

\* EnumValue.__new__(cls, id): one object per class and id
EnumValue(cls, id) == [cls |-> cls, id |-> id]

\* a step that decrements the mask instead of clearing its lowest set bit
ClearLowest_decrement(mask) == mask - 1

\* new_mask = mask & (mask - 1)
ClearLowest(mask) == BitAnd(mask, mask - 1)

Call_set_from_mask ==
    \E mask \in 0..MaxMask :
        /\ pc = "idle"
        /\ pc' = "looping"
        /\ op' = "set_from_mask"
        /\ args' = <<mask>>
        /\ py' = [NoPy EXCEPT !.mask = mask]
        /\ UNCHANGED <<todo, xfers, ret, result, tries, rx, hdr, out, run>>

\* one test of "while mask:" and, if it holds, one turn of the loop
set_from_mask ==
    /\ pc = "looping"
    /\ IF py.mask # 0
       THEN LET new_mask == ClearLowest(py.mask)
            IN  /\ py' = [py EXCEPT
                            !.flags = @ \cup {EnumValue("QuantityFlag", BitXor(py.mask, new_mask))},
                            !.mask = new_mask]
                /\ UNCHANGED <<pc, result>>
       ELSE /\ pc' = "returned"
            /\ result' = Value(<<py.flags>>)
            /\ UNCHANGED py
    /\ UNCHANGED <<op, args, todo, xfers, ret, tries, rx, hdr, out, run>>

NextBind ==
    \/ Call_python_to_gvariant
    \/ Call_gvariant_to_python
    \/ Call_HardwareDevice_getattr
    \/ Call_set_from_mask
    \/ set_from_mask
    \/ Reset

SpecBind == Init /\ [][NextBind]_vars

\* a running loop keeps running: the interpreter executes the next turn
SpecBindFair == SpecBind /\ WF_vars(set_from_mask)

(***************************************************************************)
(* Properties                                                              *)
(***************************************************************************)
IsCmdWrite(t) ==
    /\ t.k = "write"
    /\ t.ep = EP_CMD_OUT
    /\ Len(t.data) >= 2
    /\ t.data[1] = HEADER_CMD_BYTE

IsRespRead(t) == t.k = "read" /\ t.ep = EP_CMD_IN

DriverOps ==
    { "get_pic_ver", "get_eeprom", "get_rom", "get_i2c_reg", "i2c_write1",
      "i2c_writen", "strobe_set", "spi_write", "spi_read", "pic_reset",
      "post_blob_load" }

\* every command frame is answered by a response read before the next frame,
\* and none is left unanswered when the function returns
Answered(log) ==
    \A i \in 1..Len(log) :
        IsCmdWrite(log[i]) =>
            /\ i < Len(log) => (IsRespRead(log[i + 1]) /\ log[i + 1].n = 16)
            /\ i = Len(log) => pc # "returned"

InTable(reg) == \E i \in DOMAIN rmap : rmap[i][1] = reg

\* C2: for every register of REG the header-offset lookup returns an offset
\* if and only if the register is in the header table (and then the offset the
\* table lists for it), and otherwise fails with an error.
C2_LookupIffPresent ==
    op = "REG2HREG" =>
        /\ pc \in {"returned", "raised"}
        /\ InTable(args[1]) =>
              /\ pc = "returned"
              /\ result.kind = "value"
              /\ \E i \in DOMAIN rmap : rmap[i] = <<args[1], result.val[1]>>
        /\ ~InTable(args[1]) =>
              /\ pc = "raised"
              /\ result.kind = "raise"
              /\ result.val = << >>

C2_Witness ==
    /\ op = "REG2HREG"
    /\ args = <<3>>
    /\ pc = "returned"
    /\ result.val = <<8>>

\* C3: a header-table lookup, whether it succeeds or fails, performs no USB
\* transfer: the transfers issued to the device are the same after the lookup
\* as before it, and a failing lookup never reaches the device.
C3_LookupNoTransfer == [][op' = "REG2HREG" => xfers' = xfers]_vars

C3_Witness ==
    /\ op = "REG2HREG"
    /\ args = <<0>>
    /\ pc = "raised"
    /\ result.exc = "Exception"
    /\ xfers = << >>

Misses(s) == Cardinality({ i \in DOMAIN s : ~s[i] })

\* C4: header seeking fails with an error exactly when 65 consecutive 64-byte
\* reads of the data endpoint do not start with "LN"; 64 or fewer misses raise
\* nothing, and k <= 64 misses followed by a matching read make the seek
\* succeed and return that matching header.
C4_SeekBoundary ==
    op \in {"get_acquisition", "tryread"} =>
        /\ \A i \in 1..Len(xfers) :
              i <= Len(rx) => (xfers[i].k = "read" /\ xfers[i].ep = EP_DATA /\ xfers[i].n = 64)
        /\ (Misses(rx) = Len(rx) /\ Len(rx) = 65) <=>
              (pc = "raised" /\ result.exc = "Exception")
        /\ (Misses(rx) = Len(rx) /\ Len(rx) <= 64) =>
              (result.kind = "raise" => result.exc = "USBError")
        /\ Misses(rx) < Len(rx) =>
              /\ rx[Len(rx)]
              /\ Misses(rx) = Len(rx) - 1
              /\ Misses(rx) <= 64
              /\ SubSeq(hdr, 1, 2) = <<76, 78>>
              /\ pc # "seeking"
              /\ op = "get_acquisition" => (pc = "returned" /\ result = Value(hdr))

C4_Witness ==
    /\ op = "get_acquisition"
    /\ pc = "returned"
    /\ Len(rx) = 65
    /\ Misses(rx) = 64
    /\ result.val = hdr

\* bit k (of weight w = 2^k) of a byte, by division
BitSet(f, w) == (f \div w) % 2 = 1

\* C5: for every flags byte tryread classifies the frame as Overview when
\* IsOverview (2) is set, even if IsFullAcquisition (128) is set too, else as
\* Acquisition when IsFullAcquisition is set, else as Viewport; every flags
\* value gets exactly one of the three classes.
C5_Classification ==
    /\ (op = "tryread" /\ out.parsed /\ hdr[24] = 153) => pc = "returned"
    /\ (op = "tryread" /\ pc = "returned") =>
        /\ out.kind \in {"OVERVIEW", "ACQUISITION", "VIEWPORT"}
        /\ out.kind = "OVERVIEW" <=> BitSet(hdr[11], 2)
        /\ out.kind = "ACQUISITION" <=> (~BitSet(hdr[11], 2) /\ BitSet(hdr[11], 128))
        /\ out.kind = "VIEWPORT" <=> (~BitSet(hdr[11], 2) /\ ~BitSet(hdr[11], 128))

C5_Witness ==
    /\ op = "tryread"
    /\ pc = "returned"
    /\ hdr[11] = 130
    /\ out.kind = "OVERVIEW"

\* C6: for every flags byte f and every flag of HDRF, tryread reports the flag
\* as set if and only if its bit is set in f; f = 0x01 decodes to Acquiring
\* set and the seven other flags clear.
C6_FlagDecoding ==
    (op = "tryread" /\ out.parsed) =>
        /\ out.flags = hdr[11]
        /\ \A n \in DOMAIN HDRF : n \in out.flagnames <=> BitSet(hdr[11], HDRF[n])
        /\ hdr[11] = 1 => out.flagnames = {"Acquiring"}

C6_Witness ==
    /\ op = "tryread"
    /\ pc = "returned"
    /\ hdr[11] = 1
    /\ out.flagnames = {"Acquiring"}

\* the k-th 2-bit field of the DIVIDER_MULTIPLIER byte
Field(b, k) == (b \div (4 ^ k)) % 4
Dividers(i) == CASE i = 0 -> 1 [] i = 1 -> 6 [] i = 2 -> 36
Multipliers(i) == CASE i = 0 -> 11 [] i = 1 -> 20 [] i = 2 -> 30

\* C7 as stated: for every value b of the DIVIDER_MULTIPLIER header byte and
\* each channel, decoding succeeds and yields the divider and multiplier the
\* two tables list for the channel's two 2-bit fields.
C7_DecodingAlwaysSucceeds ==
    (op = "tryread" /\ out.parsed) =>
        /\ out.exc = ""
        /\ Len(out.div) = 2
        /\ Len(out.mul) = 2

\* C7: for every value b of the DIVIDER_MULTIPLIER header byte whose four
\* 2-bit fields are all at most 2, decoding succeeds and yields for channel c
\* divider {1,6,36}[(b >> 4c) & 3] and multiplier {1.1,2,3}[(b >> (4c+2)) & 3]
\* (b = 0x99: divider 6 and multiplier 3 on both channels); when a field is 3
\* the table lookup is out of range and tryread ends with IndexError.
C7_DivMulDecoding ==
    (op = "tryread" /\ out.parsed) =>
        LET b == hdr[24]
        IN  /\ (\A k \in 0..3 : Field(b, k) <= 2) =>
                  /\ out.exc = ""
                  /\ out.div = <<Dividers(Field(b, 0)), Dividers(Field(b, 2))>>
                  /\ out.mul = <<Multipliers(Field(b, 1)), Multipliers(Field(b, 3))>>
            /\ (\E k \in 0..3 : Field(b, k) = 3) =>
                  /\ out.exc = "IndexError"
                  /\ pc = "raised"
                  /\ result = Raise("IndexError")
            /\ b = 153 => (out.div = <<6, 6>> /\ out.mul = <<30, 30>>)

C7_Witness ==
    /\ op = "tryread"
    /\ pc = "returned"
    /\ hdr[24] = 153
    /\ out.div = <<6, 6>>
    /\ out.mul = <<30, 30>>

RECURSIVE Flatten(_, _, _)
\* the data of log[i..j], concatenated in order
Flatten(log, i, j) == IF i > j THEN << >> ELSE log[i].data \o Flatten(log, i + 1, j)

\* in a completed upload: START, clear-halt, the chunks, 256 padding writes,
\* END, clear-halt
NumChunks == Len(xfers) - 260

\* C8: for every blob length L the blob is written in exactly ceil(L/2048)
\* chunk writes, every chunk but the last of 2048 bytes, the last of L mod 2048
\* bytes (2048 when L is a positive multiple of 2048), and the chunks
\* concatenated in write order equal the blob.
C8_Chunking ==
    (op = "load_blob" /\ pc = "returned") =>
        LET L == args[1]
        IN  /\ NumChunks = (L + 2047) \div 2048
            /\ \A i \in 1..NumChunks :
                  /\ xfers[2 + i].k = "write"
                  /\ xfers[2 + i].ep = EP_CMD_OUT
                  /\ i < NumChunks => Len(xfers[2 + i].data) = 2048
                  /\ i = NumChunks =>
                        Len(xfers[2 + i].data) = (IF L % 2048 = 0 THEN 2048 ELSE L % 2048)
            /\ Flatten(xfers, 3, 2 + NumChunks) = Blob(L)

C8_Witness ==
    /\ op = "load_blob"
    /\ pc = "returned"
    /\ args = <<2049>>
    /\ NumChunks = 2
    /\ Len(xfers[4].data) = 1

IsPadWrite(t) ==
    /\ t.k = "write"
    /\ t.ep = EP_CMD_OUT
    /\ Len(t.data) = 32
    /\ \A j \in 1..32 : t.data[j] = 255

IsEndCmd(t) == IsCmdWrite(t) /\ t.data = <<192, 13>>

\* C9: for every blob length, after the last blob chunk and before
\* PROGRAM_FPGA_END exactly 256 writes are issued, each of exactly 32 bytes all
\* equal to 0xFF, and no padding write precedes a blob chunk.
C9_Padding ==
    (op = "load_blob" /\ pc = "returned") =>
        LET n == Len(xfers)
        IN  /\ n >= 260
            /\ IsEndCmd(xfers[n - 1])
            /\ \A i \in 1..n : IsPadWrite(xfers[i]) <=> (n - 257 <= i /\ i <= n - 2)
            /\ \A i \in 1..n :
                  IsEndCmd(xfers[i]) => Cardinality({ j \in 1..i : IsPadWrite(xfers[j]) }) = 256

C9_Witness ==
    /\ op = "load_blob"
    /\ pc = "returned"
    /\ args = <<0>>
    /\ Len(xfers) = 260
    /\ IsPadWrite(xfers[3])
    /\ IsPadWrite(xfers[258])

\* C10: for every blob length L the packet count sent in PROGRAM_FPGA_START
\* equals ceil(L/32) + 256, so that 32 times the packet count is never less
\* than the L + 256*32 bytes written afterwards.
C10_PacketCountCeil ==
    (op = "load_blob" /\ Len(xfers) >= 1) =>
        LET L == args[1]
            count == xfers[1].data[3] * 256 + xfers[1].data[4]
        IN  /\ xfers[1].data[2] = 12
            /\ count = ((L + 31) \div 32) + 256
            /\ 32 * count >= L + 256 * 32

IsStartCmd(t) == IsCmdWrite(t) /\ Len(t.data) = 4 /\ t.data[2] = 12

IsDataHaltClear(t) == t.k = "clear_halt" /\ t.ep = 129

\* the step of the upload a logged transfer belongs to, by its place in the
\* log: 1 START, 2 first clear-halt, 3 blob chunk, 4 padding, 5 END,
\* 6 second clear-halt, 0 anything else
UploadPhase(log, i) ==
    CASE i = 1 /\ IsStartCmd(log[i]) -> 1
      [] i = 2 /\ IsDataHaltClear(log[i]) -> 2
      [] i > 2 /\ IsDataHaltClear(log[i]) -> 6
      [] i > 2 /\ IsEndCmd(log[i]) -> 5
      [] i > 2 /\ IsPadWrite(log[i]) -> 4
      [] i > 2 /\ log[i].k = "write" /\ log[i].ep = 2 /\ ~IsPadWrite(log[i])
              /\ ~IsEndCmd(log[i]) /\ ~IsStartCmd(log[i]) -> 3
      [] OTHER -> 0

\* C11: in every successful upload the device sees, in this order and with
\* nothing else interleaved, one PROGRAM_FPGA_START command, one clear-halt of
\* the data endpoint, all blob chunks, all padding writes, one
\* PROGRAM_FPGA_END command and a second clear-halt of the data endpoint;
\* START and END are each sent exactly once.  (While the upload runs, what has
\* been sent so far is always a prefix of that order.)
C11_UploadOrder ==
    op = "load_blob" =>
        /\ \A i \in 1..Len(xfers) : UploadPhase(xfers, i) # 0
        /\ \A i \in 1..(Len(xfers) - 1) :
              /\ UploadPhase(xfers, i) <= UploadPhase(xfers, i + 1)
              /\ UploadPhase(xfers, i) \in {1, 2, 5, 6} =>
                    UploadPhase(xfers, i) < UploadPhase(xfers, i + 1)
        /\ pc = "returned" =>
              /\ Cardinality({ i \in 1..Len(xfers) : IsStartCmd(xfers[i]) }) = 1
              /\ Cardinality({ i \in 1..Len(xfers) : IsEndCmd(xfers[i]) }) = 1
              /\ Cardinality({ i \in 1..Len(xfers) : IsDataHaltClear(xfers[i]) }) = 2
              /\ Cardinality({ i \in 1..Len(xfers) : UploadPhase(xfers, i) = 4 }) = 256
              /\ Flatten(xfers, 3, Len(xfers) - 258) = Blob(args[1])
              /\ UploadPhase(xfers, Len(xfers)) = 6

C11_Witness ==
    /\ op = "load_blob"
    /\ pc = "returned"
    /\ args = <<33>>
    /\ Len(xfers) = 261
    /\ UploadPhase(xfers, 3) = 3
    /\ UploadPhase(xfers, 260) = 5

\* the last transfer was a write that returned fewer bytes than its buffer
ShortWrite ==
    /\ xfers # << >>
    /\ xfers[Len(xfers)].k = "write"
    /\ Len(ret) = 1
    /\ ret[1] < Len(xfers[Len(xfers)].data)

\* C12: during firmware upload any write (start command, blob chunk, padding
\* chunk or end command) whose returned byte count differs from the length of
\* the buffer written aborts the upload with an error: nothing further is sent
\* after such a short write.
C12_ShortWriteAborts == (op = "load_blob" /\ ShortWrite) => pc = "raised"

\* C13: for every I2C address a and register r, get_i2c_reg sends first an
\* I2C_WRITE seek frame addressed to a<<1 carrying r and no data bytes, then an
\* I2C_READ frame for address a with length 1, then reads one response, and
\* the value it returns is byte 4 of that response for every 16-byte response.
C13_RegisterRead ==
    op = "get_i2c_reg" =>
        /\ Len(xfers) <= 3
        /\ Len(xfers) >= 1 =>
              /\ xfers[1].k = "write" /\ xfers[1].ep = 2
              /\ xfers[1].data = <<192, 10, 2, 2 * args[1], args[2]>>
        /\ Len(xfers) >= 2 =>
              /\ xfers[2].k = "write" /\ xfers[2].ep = 2
              /\ xfers[2].data = <<192, 11, args[1], 1>>
        /\ Len(xfers) >= 3 =>
              /\ xfers[3].k = "read" /\ xfers[3].ep = 131 /\ xfers[3].n = 16
        /\ (Len(xfers) = 3 /\ Len(ret) = 16) => pc \in {"running", "returned"}
        /\ pc = "returned" =>
              /\ Len(xfers) = 3
              /\ result.kind = "value"
              /\ result.val = <<ret[5]>>

C13_Witness ==
    /\ op = "get_i2c_reg"
    /\ args = <<13, 4>>
    /\ pc = "returned"
    /\ Len(ret) = 16
    /\ result.val = <<ret[5]>>

\* C14: for get_pic_ver, get_eeprom, get_rom and get_i2c_reg a response whose
\* length is not 16 bytes makes the call fail with an error instead of
\* returning a decoded value.
C14_BadLengthFails ==
    ( /\ op \in {"get_pic_ver", "get_eeprom", "get_rom", "get_i2c_reg"}
      /\ pc = "returned"
      /\ xfers # << >> ) =>
        /\ IsRespRead(xfers[Len(xfers)])
        /\ Len(ret) = 16

\* the data of the logged transfers, in order
Frames(log) == [i \in 1..Len(log) |-> log[i].data]

IsPrefix(a, b) == Len(a) <= Len(b) /\ SubSeq(b, 1, Len(a)) = a

AllCmdWrites(log) == \A i \in 1..Len(log) : log[i].k = "write" /\ log[i].ep = 2

\* C15: for every register reg and data byte list d, i2c_writen sends exactly
\* one frame [marker, I2C_WRITE, 2+len(d), settingsAddr<<1, reg, d...], and
\* i2c_write1(reg, v) sends exactly the frame i2c_writen(reg, [v]) would send.
C15_WriteFraming ==
    /\ op = "i2c_writen" =>
          /\ AllCmdWrites(xfers)
          /\ IsPrefix(Frames(xfers),
                      << <<192, 10, 2 + (Len(args) - 1), 24, args[1]>> \o Tail(args) >>)
          /\ pc = "returned" => Len(xfers) = 1
    /\ op = "i2c_write1" =>
          /\ AllCmdWrites(xfers)
          /\ IsPrefix(Frames(xfers), << <<192, 10, 3, 24, args[1], args[2]>> >>)
          /\ IsPrefix(xfers, [i \in 1..1 |-> Logged(i2c_writen(args[1], <<args[2]>>)[i])])
          /\ pc = "returned" => Len(xfers) = 1

C15_Witness ==
    /\ op = "i2c_writen"
    /\ pc = "returned"
    /\ args = <<7, 127, 80>>
    /\ Frames(xfers) = << <<192, 10, 4, 24, 7, 127, 80>> >>

\* C16: for every strobe s of STR and value v in {0,1}, strobe_set(s, v)
\* issues exactly one register write, to STROBE_UPDATE (register 0) on the
\* settings I2C address, whose single data byte equals (index(s) << 1) | v.
C16_StrobeWrite ==
    op = "strobe_set" =>
        /\ AllCmdWrites(xfers)
        /\ IsPrefix(Frames(xfers), << <<192, 10, 3, 24, 0, 2 * args[1] + args[2]>> >>)
        /\ pc = "returned" => Len(xfers) = 1

C16_Witness ==
    /\ op = "strobe_set"
    /\ pc = "returned"
    /\ args = <<21, 1>>
    /\ Frames(xfers) = << <<192, 10, 3, 24, 0, 43>> >>

\* an I2C_WRITE frame to register reg of the settings address
IsRegFrame(t, reg) ==
    /\ IsCmdWrite(t)
    /\ Len(t.data) >= 5
    /\ t.data[2] = 10
    /\ t.data[4] = 24
    /\ t.data[5] = reg

\* a strobe update frame for strobe s with value v
IsStrobeFrame(t, s, v) == IsRegFrame(t, 0) /\ t.data = <<192, 10, 3, 24, 0, 2 * s + v>>

SpiCommit == << <<192, 10, 3, 24, 0, 2>>, <<192, 10, 3, 24, 0, 3>> >>

\* C17: every spi_write writes SPI_ADDRESS and then SPI_WRITE_VALUE before
\* committing; every spi_write and spi_read commits by writing
\* INIT_SPI_TRANSFER = 0 followed immediately by INIT_SPI_TRANSFER = 1,
\* whatever the strobe's level was; spi_read reads its result (ROM I2C target,
\* register 4) only after the 0-then-1 toggle.
C17_SpiTunnel ==
    /\ op = "spi_write" =>
          /\ AllCmdWrites(xfers)
          /\ IsPrefix(Frames(xfers),
                      << <<192, 10, 3, 24, 1, args[1]>>, <<192, 10, 3, 24, 2, args[2]>> >>
                      \o SpiCommit)
          /\ pc = "returned" => Len(xfers) = 4
    /\ op = "spi_read" =>
          /\ IsPrefix(Frames(SubSeq(xfers, 1, Min(5, Len(xfers)))),
                      << <<192, 10, 3, 24, 1, args[1] + 128>> >> \o SpiCommit
                      \o << <<192, 10, 2, 26, 4>>, <<192, 11, 13, 1>> >>)
          /\ \A i \in 1..Len(xfers) : IsRespRead(xfers[i]) <=> i = 6
          /\ Len(xfers) <= 6
          /\ pc = "returned" => (Len(xfers) = 6 /\ result.val = <<ret[5]>>)
    /\ op = "post_blob_load" =>
          \A i \in 1..Len(xfers) :
              /\ IsRegFrame(xfers[i], 1) =>
                    /\ i + 1 <= Len(xfers) => IsRegFrame(xfers[i + 1], 2)
                    /\ i + 2 <= Len(xfers) => IsStrobeFrame(xfers[i + 2], 1, 0)
                    /\ i + 3 <= Len(xfers) => IsStrobeFrame(xfers[i + 3], 1, 1)
              /\ IsStrobeFrame(xfers[i], 1, 1) =>
                    (i > 3 /\ IsStrobeFrame(xfers[i - 1], 1, 0) /\ IsRegFrame(xfers[i - 3], 1))

C17_Witness ==
    /\ op = "spi_read"
    /\ pc = "returned"
    /\ args = <<10>>
    /\ Len(xfers) = 6
    /\ IsStrobeFrame(xfers[2], 1, 0)
    /\ IsStrobeFrame(xfers[3], 1, 1)
    /\ IsRespRead(xfers[6])

\* C18: get_rom(i, n) is rejected with no USB transfer at all whenever any
\* addressed byte lies outside 0x0000..0x0FFF, and every request whose
\* addressed bytes i..i+n-1 all lie inside 0x0000..0x0FFF is accepted and
\* sent to the device.
AddressedInside(i, n) == \A a \in i..(i + n - 1) : a >= 0 /\ a <= 4095

IsSettingsWrite(t) ==
    /\ IsCmdWrite(t)
    /\ Len(t.data) >= 6
    /\ t.data[2] = 10
    /\ t.data[4] = 24
    /\ t.data[5] # 0

IsScopeUpdatePulse(t) == IsStrobeFrame(t, 5, 1)

\* C19: in a bring-up run every settings-register write is followed, later in
\* the same run, by a SCOPE_UPDATE strobe pulse; no settings-register write
\* occurs after the last SCOPE_UPDATE pulse.
C19_CommitOrder ==
    (op = "post_blob_load" /\ pc = "returned") =>
        LET pulses == { j \in 1..Len(xfers) : IsScopeUpdatePulse(xfers[j]) }
        IN  /\ pulses # {}
            /\ \A i \in 1..Len(xfers) :
                  IsSettingsWrite(xfers[i]) => \E j \in pulses : j > i
            /\ \A i \in 1..Len(xfers) :
                  (\A j \in pulses : j < i) => ~IsSettingsWrite(xfers[i])

C19_Witness ==
    /\ op = "post_blob_load"
    /\ pc = "returned"
    /\ Len(xfers) > 7
    /\ IsSettingsWrite(xfers[Len(xfers) - 7])
    /\ xfers[Len(xfers) - 7].data[5] = REG.VIEW_BURSTS
    /\ IsScopeUpdatePulse(xfers[Len(xfers) - 1])

\* a strobe update frame, whatever strobe and value it carries
IsStrobeWrite(t) == IsRegFrame(t, 0) /\ Len(t.data) = 6

\* the place of the data-endpoint clear-halt in a bring-up log
HaltAt(log) == { i \in 1..Len(log) : IsDataHaltClear(log[i]) }

\* the last transfer before place c that is not a strobe update
LastNonStrobe(log, c) ==
    CHOOSE g \in 0..(c - 1) :
        /\ g > 0 => ~IsStrobeWrite(log[g])
        /\ \A k \in (g + 1)..(c - 1) : IsStrobeWrite(log[k])

\* C20: in bring-up, after the trigger-default register writes and before the
\* data-endpoint clear-halt, exactly 20 distinct strobes are set, each once
\* and in the listed order (strobe indices 2 through 21 ascending),
\* immediately followed by one further SCOPE_UPDATE pulse and then one
\* further VIEW_UPDATE pulse.
C20_StrobeBlock ==
    (op = "post_blob_load" /\ pc = "returned") =>
        /\ Cardinality(HaltAt(xfers)) = 1
        /\ LET c == CHOOSE i \in HaltAt(xfers) : TRUE
               g == LastNonStrobe(xfers, c)
           IN  /\ g > 1
               /\ c = g + 23
               /\ IsRegFrame(xfers[g - 1], REG.DIGITAL_TRIGGER_FALLING)
               /\ IsRegFrame(xfers[g], REG.GENERATOR_DECIMATION_B0)
               /\ \A k \in 1..20 : xfers[g + k].data[6] \div 2 = k + 1
               /\ IsStrobeFrame(xfers[g + 21], STR.SCOPE_UPDATE, 1)
               /\ IsStrobeFrame(xfers[g + 22], STR.VIEW_UPDATE, 1)

C20_Witness ==
    /\ op = "post_blob_load"
    /\ pc = "returned"
    /\ \E c \in HaltAt(xfers) :
          /\ c > 23
          /\ IsStrobeFrame(xfers[c - 22], STR.GENERATOR_TO_AWG, 0)
          /\ IsStrobeFrame(xfers[c - 3], STR.LA_CHANNEL, 0)
          /\ IsStrobeFrame(xfers[c - 2], STR.SCOPE_UPDATE, 1)
          /\ IsStrobeFrame(xfers[c - 1], STR.VIEW_UPDATE, 1)

\* the SPI writes (address, value) among the transfers lo..hi of a log, in order
RECURSIVE SpiWrites(_, _, _)
SpiWrites(log, lo, hi) ==
    IF lo >= hi THEN << >>
    ELSE IF IsRegFrame(log[lo], 1) /\ IsRegFrame(log[lo + 1], 2)
         THEN << <<log[lo].data[6], log[lo + 1].data[6]>> >> \o SpiWrites(log, lo + 2, hi)
         ELSE SpiWrites(log, lo + 1, hi)

\* the SPI writes of a bring-up log that come before the data-endpoint clear-halt
ResetWrites(log) == SpiWrites(log, 1, (CHOOSE c \in HaltAt(log) : TRUE) - 1)

RegAt(log, reg) == { i \in 1..Len(log) : IsRegFrame(log[i], reg) /\ Len(log[i].data) >= 6 }

AcqStartAt(log) == { i \in 1..Len(log) : IsStrobeFrame(log[i], STR.ACQ_START, 1) }

AdcInit == << <<10, 90>>, <<0, 3>>, <<1, 2>>, <<2, 0>>, <<3, 24>>, <<4, 0>> >>

\* C22: in bring-up the data-endpoint clear-halt precedes the ADC SPI init,
\* whose first SPI write is the soft reset; the ADC init precedes the writes
\* of trigger level, acquisition depth, view decimation and view bursts (in
\* that order); ACQ_START is written with value 1 exactly once, and only
\* after all of those writes.
C22_PhaseOrder ==
    op = "post_blob_load" =>
        /\ Cardinality(HaltAt(xfers)) <= 1
        /\ Cardinality(AcqStartAt(xfers)) <= 1
        /\ \A c \in HaltAt(xfers) :
              LET spi == SpiWrites(xfers, c + 1, Len(xfers))
              IN  /\ IsPrefix(spi, AdcInit)
                  /\ \A t \in RegAt(xfers, REG.TRIGGER_LEVEL) :
                        /\ t > c
                        /\ SpiWrites(xfers, c + 1, t - 1) = AdcInit
                        /\ SpiWrites(xfers, t, Len(xfers)) = << >>
        /\ \A t \in RegAt(xfers, REG.TRIGGER_LEVEL) : HaltAt(xfers) # {}
        /\ \A d \in RegAt(xfers, REG.ACQUISITION_DEPTH) :
              \E t \in RegAt(xfers, REG.TRIGGER_LEVEL) : t < d
        /\ \A v \in RegAt(xfers, REG.VIEW_DECIMATION) :
              \E d \in RegAt(xfers, REG.ACQUISITION_DEPTH) : d < v
        /\ \A b \in RegAt(xfers, REG.VIEW_BURSTS) :
              \E v \in RegAt(xfers, REG.VIEW_DECIMATION) : v < b
        /\ \A a \in AcqStartAt(xfers) :
              /\ \E b \in RegAt(xfers, REG.VIEW_BURSTS) : b < a
              /\ \A i \in a..Len(xfers) : ~IsSettingsWrite(xfers[i])
        /\ pc = "returned" =>
              /\ Cardinality(AcqStartAt(xfers)) = 1
              /\ \A reg \in {REG.TRIGGER_LEVEL, REG.ACQUISITION_DEPTH,
                             REG.VIEW_DECIMATION, REG.VIEW_BURSTS} :
                    Cardinality(RegAt(xfers, reg)) = 1

C22_Witness ==
    /\ op = "post_blob_load"
    /\ pc = "returned"
    /\ \E c \in HaltAt(xfers), t \in RegAt(xfers, REG.TRIGGER_LEVEL), a \in AcqStartAt(xfers) :
          /\ c < t
          /\ t < a
          /\ IsRegFrame(xfers[c + 1], 1)
          /\ xfers[c + 1].data[6] = 10
          /\ xfers[c + 2].data[6] = 90

\* C23 as stated: raising ACQ_START is the final step of bring-up: no register
\* write or strobe write is sent by post_blob_load after ACQ_START has been
\* set to 1.
C23_AcqStartLast ==
    op = "post_blob_load" =>
        \A a \in AcqStartAt(xfers) :
            \A i \in (a + 1)..Len(xfers) :
                ~(IsSettingsWrite(xfers[i]) \/ IsStrobeWrite(xfers[i]))

\* C23 amended: after ACQ_START has been set to 1, post_blob_load sends no
\* register write and exactly three further strobe writes, LA_CHANNEL = 0,
\* SCOPE_UPDATE = 1 and VIEW_UPDATE = 1 in that order, and nothing else.
C23_AcqStartThenCommit ==
    op = "post_blob_load" =>
        \A a \in AcqStartAt(xfers) :
            /\ IsPrefix(Frames(SubSeq(xfers, a + 1, Len(xfers))),
                        << <<192, 10, 3, 24, 0, 2 * STR.LA_CHANNEL>>,
                           <<192, 10, 3, 24, 0, 2 * STR.SCOPE_UPDATE + 1>>,
                           <<192, 10, 3, 24, 0, 2 * STR.VIEW_UPDATE + 1>> >>)
            /\ \A i \in (a + 1)..Len(xfers) : IsStrobeWrite(xfers[i])
            /\ pc = "returned" => Len(xfers) = a + 3

C23_Witness ==
    /\ op = "post_blob_load"
    /\ pc = "returned"
    /\ Len(xfers) > 3
    /\ IsStrobeFrame(xfers[Len(xfers) - 3], STR.ACQ_START, 1)
    /\ IsStrobeFrame(xfers[Len(xfers)], STR.VIEW_UPDATE, 1)

\* the calls of f the script has finished, by their place in the run
Finished(f, st) == { k \in 1..Len(run) : run[k].f = f /\ run[k].st = st }

IsDataRead(t) == t.k = "read" /\ t.ep = EP_DATA

\* C24: bring-up is all-or-nothing: if any USB transfer fails at any step of
\* post_blob_load the failure propagates at once, the failed step is not
\* retried, no later bring-up step is sent, and no acquisition read is
\* performed in that program run; acquisition reads happen only after
\* bring-up has run to completion.
C24_AllOrNothing ==
    /\ (op = "post_blob_load" /\ result.kind = "raise") =>
          /\ pc \in {"raised", "exited"}
          /\ todo = << >>
          /\ IsPrefix(xfers, [i \in 1..Len(post_blob_load) |-> Logged(post_blob_load[i])])
    /\ \A k \in Finished("post_blob_load", "raised") :
          /\ k = Len(run)
          /\ pc = "exited"
          /\ op = "post_blob_load"
    /\ op = "tryread" => Finished("post_blob_load", "returned") # {}
    /\ (\E i \in 1..Len(xfers) : IsDataRead(xfers[i])) =>
          (op = "tryread" /\ Finished("post_blob_load", "returned") # {})

C24_Witness ==
    /\ pc = "exited"
    /\ op = "post_blob_load"
    /\ result = Raise("USBError")
    /\ Finished("post_blob_load", "raised") = {5}
    /\ Len(xfers) = 40
    /\ IsRegFrame(xfers[40], 0)

\* C25: in the program's execution post_blob_load runs exactly once and only
\* after a firmware upload (load_blob, through PROGRAM_FPGA_END) has
\* completed in the same run.
C25_AfterUpload ==
    /\ Cardinality(Finished("post_blob_load", "returned")
                   \cup Finished("post_blob_load", "raised")) <= 1
    /\ op = "post_blob_load" => Finished("load_blob", "returned") # {}
    /\ (pc = "exited" /\ Len(run) = Len(Script)) =>
          Finished("post_blob_load", "returned") # {}

IsHeaderRead(t) == IsDataRead(t) /\ t.n = 64

IsPayloadRead(t) == IsDataRead(t) /\ t.n = 4096

PayloadAt(log) == { i \in 1..Len(log) : IsPayloadRead(log[i]) }

\* C26: in every frame of tryread / read_forever the payload read is
\* immediately preceded by a header read whose bytes 0-1 equal "LN", exactly
\* one payload read follows a found header, and when the header seek fails
\* no payload read is issued for that frame; every frame starts at header
\* seeking.
C26_Framing ==
    op \in Readers =>
        /\ \A i \in 1..Len(xfers) : IsHeaderRead(xfers[i]) \/ IsPayloadRead(xfers[i])
        /\ xfers # << >> => IsHeaderRead(xfers[1])
        /\ xfers = << >> => (pc = "seeking" /\ tries = 0)
        /\ Cardinality(PayloadAt(xfers)) <= 1
        /\ \A i \in PayloadAt(xfers) :
              /\ i = Len(xfers)
              /\ i > 1
              /\ IsHeaderRead(xfers[i - 1])
              /\ Len(hdr) >= 2
              /\ hdr[1] = 76
              /\ hdr[2] = 78
              /\ pc \in {"returned", "raised"}
        /\ pc = "header" =>
              (PayloadAt(xfers) = {} /\ Len(hdr) >= 2 /\ hdr[1] = 76 /\ hdr[2] = 78)
        /\ (pc \in {"returned", "raised"} /\ rx # << >> /\ rx[Len(rx)]
            /\ Len(xfers) > Len(rx)) =>
              PayloadAt(xfers) = {Len(xfers)}
        /\ (pc = "raised" /\ result = Raise("Exception")) =>
              (PayloadAt(xfers) = {} /\ tries = 65)
        /\ pc = "returned" => Cardinality(PayloadAt(xfers)) = 1

C26_Witness ==
    /\ op = "read_forever"
    /\ pc = "returned"
    /\ tries = 2
    /\ Len(xfers) = 4
    /\ IsHeaderRead(xfers[3])
    /\ IsPayloadRead(xfers[4])
    /\ rx = <<FALSE, FALSE, TRUE>>

\* C27: the payload read requests at most 4096 bytes and uses a timeout
\* strictly longer than the timeout of the 64-byte header reads.
C27_PayloadTimeout ==
    op \in Readers =>
        \A i \in PayloadAt(xfers) :
            /\ xfers[i].n <= 4096
            /\ \A j \in 1..Len(xfers) :
                  IsHeaderRead(xfers[j]) => xfers[i].timeout > xfers[j].timeout

\* Python list(itertools.chain(*zip(a, b))) with the odd last element kept:
\* a[0], b[0], a[1], b[1], ...
Interleave(a, b) ==
    [i \in 1..(Len(a) + Len(b)) |-> IF i % 2 = 1 THEN a[(i + 1) \div 2] ELSE b[i \div 2]]

\* C28: for every payload p of length n, channel A is exactly the bytes of p
\* at even (0-based) indices and channel B those at odd indices, in order;
\* len(A) = ceil(n/2), len(B) = floor(n/2), and re-interleaving A and B
\* reproduces p.
C28_Deinterleave ==
    (op \in Readers /\ pc = "returned") =>
        LET p == ret
            n == Len(p)
        IN  /\ Len(out.chad) = (n + 1) \div 2
            /\ Len(out.chbd) = n \div 2
            /\ \A k \in 1..Len(out.chad) : out.chad[k] = p[2 * k - 1]
            /\ \A k \in 1..Len(out.chbd) : out.chbd[k] = p[2 * k]
            /\ Len(out.chad) + Len(out.chbd) = n
            /\ Interleave(out.chad, out.chbd) = p

C28_Witness ==
    /\ op = "tryread"
    /\ pc = "returned"
    /\ Len(ret) = 5
    /\ out.chad = <<ret[1], ret[3], ret[5]>>
    /\ out.chbd = <<ret[2], ret[4]>>

\* the value of a byte read as a signed char
Signed8(b) == IF b >= 128 THEN b - 256 ELSE b

\* the 0-based byte positions the fields are taken from
FieldBytes ==
    [ magic |-> 0..1, hoff |-> {2}, bpb |-> {3}, nburst |-> 4..5, off |-> 6..7,
      flags |-> {10}, aid |-> {11}, hregs |-> 15..44, hstrobes |-> 45..46 ]

C30_SeekTerminates ==
    op = "get_acquisition" =>
        /\ Len(xfers) <= 65
        /\ \A i \in 1..Len(xfers) : IsHeaderRead(xfers[i])
        /\ pc \in {"seeking", "returned", "raised"}
        /\ pc = "seeking" =>
              /\ Len(xfers) = tries
              /\ tries < 65
              /\ \A k \in 1..Len(rx) : ~rx[k]
        /\ \A k \in 1..Len(rx) :
              rx[k] => (k = Len(rx) /\ k = Len(xfers) /\ pc = "returned")
        /\ pc = "returned" =>
              (rx # << >> /\ rx[Len(rx)] /\ result = Value(hdr) /\ Len(xfers) = tries + 1)
        /\ pc = "raised" =>
              \/ result = Raise("USBError") /\ Len(xfers) = tries + 1
              \/ result = Raise("Exception") /\ Len(xfers) = 65 /\ tries = 65

C30_Witness ==
    /\ op = "get_acquisition"
    /\ pc = "raised"
    /\ result = Raise("Exception")
    /\ Len(xfers) = 65
    /\ tries = 65
    /\ \A k \in 1..65 : ~rx[k]

\* C31: for every accepted request (i, n) and every 16-byte response,
\* get_rom returns exactly n bytes, namely response bytes 5 .. 5+n-1.
C31_RomLength ==
    (op = "get_rom" /\ pc = "returned" /\ xfers # << >> /\ Len(ret) = 16) =>
        /\ result.kind = "value"
        /\ Len(result.val) = args[2]
        /\ \A k \in 1..Len(result.val) : result.val[k] = ret[5 + k]

\* the registers the lookup answers for, and the offsets it answers with
HeaderRegs == { r \in RegIds : REG2HREG(r).kind = "value" }

HeaderOffsets == { REG2HREG(r).val[1] : r \in HeaderRegs }

\* C32: the header-register table is a bijection between its 30 registers and
\* the offsets 0..29: no register appears twice, no offset appears twice, and
\* every returned offset is a valid index into the 30-byte header-register
\* snapshot.
C32_TableBijection ==
    /\ Len(rmap) = 30
    /\ \A i, j \in DOMAIN rmap :
          i # j => (rmap[i][1] # rmap[j][1] /\ rmap[i][2] # rmap[j][2])
    /\ { rmap[i][2] : i \in DOMAIN rmap } = 0..29
    /\ (op = "REG2HREG" /\ pc = "returned") =>
          /\ result.kind = "value"
          /\ result.val[1] \in 0..29
          /\ Cardinality(HeaderRegs) = 30
          /\ HeaderOffsets = 0..29
          /\ \A r \in HeaderRegs \ {args[1]} : REG2HREG(r).val # result.val
    /\ (op \in Readers /\ out.parsed) =>
          \A r \in HeaderRegs : REG2HREG(r).val[1] + 1 \in DOMAIN out.hregs

C32_Witness ==
    /\ op = "REG2HREG"
    /\ pc = "returned"
    /\ args = <<REG.VIEW_EXCESS_B1>>
    /\ result = Value(<<29>>)

\* C33: a header returned by get_acquisition is always exactly 64 bytes long,
\* so the header parse in tryread never fails on a header that passed the
\* magic check.
C33_HeaderIs64 ==
    (op \in Readers \cup {"get_acquisition"} /\ rx # << >> /\ rx[Len(rx)]) =>
        /\ Len(hdr) = 64
        /\ result # Raise("struct.error")

\* C34: the viewport-excess sample count computed by tryread equals
\* VIEW_EXCESS_B0 + 256 * VIEW_EXCESS_B1 of the header registers.
C34_ViewportExcess ==
    (op \in Readers /\ pc = "returned" /\ out.parsed) =>
        out.vp_excess = out.hregs[28 + 1] + 256 * out.hregs[29 + 1]

\* the byte a strobe update carries
StrobeByte(s, v) == strobe_set(s, v)[1].data[6]

\* C35: for all strobes s (index 0..21) and v in {0,1} the strobe update byte
\* (index(s) << 1) | v is in 0..255, its low bit equals v and its remaining
\* bits equal index(s), so distinct (strobe, value) pairs give distinct bytes.
C35_StrobeLossless ==
    (op = "strobe_set" /\ Len(xfers) = 1) =>
        LET b == xfers[1].data[6]
        IN  /\ b \in 0..255
            /\ b % 2 = args[2]
            /\ b \div 2 = args[1]
            /\ \A s \in StrIds, v \in {0, 1} :
                  <<s, v>> # args => StrobeByte(s, v) # b
            /\ Cardinality({ StrobeByte(s, v) : s \in StrIds, v \in {0, 1} }) = 44

C35_Witness ==
    /\ op = "strobe_set"
    /\ pc = "returned"
    /\ args = <<1, 0>>
    /\ xfers[1].data[6] = 2
    /\ StrobeByte(0, 1) = 1

\* the ROM address a FLASH_ROM_READ frame asks for
RomAddress(t) == t.data[3] + 256 * t.data[5]

\* C36: dump_calibration_raw reads the gain calibration as exactly 54
\* four-byte ROM reads at addresses 4, 8, ..., 216, every read inside the
\* gain-calibration region [OFF_GAINCAL, OFF_MAG).
C36_GainReads ==
    (op = "dump_calibration_raw" /\ pc = "returned") =>
        /\ Len(xfers) = 2 * (2 + 54)
        /\ \A k \in 1..54 :
              LET t == xfers[2 * k + 3]
              IN  /\ IsCmdWrite(t)
                  /\ t.data[2] = PIC_CMDS.FLASH_ROM_READ
                  /\ t.data[4] = 4
                  /\ RomAddress(t) = 4 * k
                  /\ RomAddress(t) >= OFF_GAINCAL
                  /\ RomAddress(t) + 4 <= OFF_MAG


(***************************************************************************)
(* Claims about the Python bindings                                        *)
(***************************************************************************)
\* the variant type each Python type is meant to be carried in
MatchingType(t) ==
    CASE t = "bool" -> "b"
      [] t = "int" -> "t"
      [] t = "float" -> "d"
      [] t = "str" -> "s"
      [] t = "Fraction" -> "(tt)"

\* C37: for every bool, unsigned int, float, str or Fraction v,
\* python_to_gvariant(v) is a variant of the matching type and
\* gvariant_to_python(python_to_gvariant(v)) is v again, with v's type.
C37_RoundTrip ==
    (/\ pc = "returned"
     /\ op = "gvariant_to_python"
     /\ py.value[1].t \in {"bool", "int", "float", "str", "Fraction"})
    => /\ py.variant[1].ty = MatchingType(py.value[1].t)
       /\ result = Value(<<py.value[1]>>)

\* C38: an attribute read whose config read fails with SR_ERR_NA raises
\* NotImplementedError, one that fails with another code raises
\* AttributeError, and one that succeeds returns the converted value.
C38_GetattrErrors ==
    (op = "__getattr__" /\ pc \in {"raised", "returned"})
    => result = (IF py.code = "SR_ERR_NA" THEN Raise("NotImplementedError")
                 ELSE IF py.code # "SR_OK" THEN Raise("AttributeError")
                 ELSE gvariant_to_python(py.variant[1]))

RECURSIVE PopCount(_)
PopCount(n) == IF n = 0 THEN 0 ELSE (n % 2) + PopCount(n \div 2)

RECURSIVE OrAll(_)
OrAll(S) ==
    IF S = {} THEN 0
    ELSE LET x == CHOOSE y \in S : TRUE
         IN  BitOr(x, OrAll(S \ {x}))

IsSingleBit(n) == PopCount(n) = 1

FlagIds(flags) == { f.id : f \in flags }

\* what holds of set_from_mask's set and remaining mask at every moment
SetFromMaskState ==
    (op = "set_from_mask" /\ pc \in {"looping", "returned"})
    => /\ \A f \in py.flags : f.cls = "QuantityFlag" /\ IsSingleBit(f.id)
                              /\ BitAnd(f.id, args[1]) = f.id
       /\ Cardinality(py.flags) + PopCount(py.mask) = PopCount(args[1])
       /\ BitOr(OrAll(FlagIds(py.flags)), py.mask) = args[1]
       /\ pc = "returned" =>
            /\ py.mask = 0
            /\ result = Value(<<py.flags>>)
            /\ Cardinality(py.flags) = PopCount(args[1])
            /\ OrAll(FlagIds(py.flags)) = args[1]
            /\ (args[1] = 0 => py.flags = {})

\* C39: set_from_mask terminates for every non-negative mask and returns one
\* flag per set bit of the mask: as many flags as set bits, every id a single
\* bit of the mask, the OR of the ids the mask, the empty set for mask 0.
C39_SetFromMask ==
    /\ []SetFromMaskState
    /\ ((op = "set_from_mask" /\ pc = "looping")
        ~> (op = "set_from_mask" /\ pc = "returned"))

C39_Witness ==
    /\ op = "set_from_mask"
    /\ pc = "returned"
    /\ args = <<13>>
    /\ FlagIds(result.val[1]) = {1, 4, 8}
====
